---- MODULE Spec2Model ----
(***************************************************************************)
(* Coral Markets Discord bot: the in-memory subscription store, the        *)
(* subscription service, the notification policy functions and the         *)
(* fan-out dispatch of the webhook handler.                                *)
(*                                                                         *)
(* The repository keeps maps from an id to a POINTER to a record, and its  *)
(* getters hand that pointer out.  The model therefore has a heap per      *)
(* record type (subObjs, chanObjs: pointer -> record contents) beside the  *)
(* maps (subscriptions, channels: id -> pointer, NoPtr when the key is     *)
(* missing), so that a holder of a pointer sees later writes to it.  A     *)
(* pointer is named <<id, n>>: the n-th record made for that id.           *)
(***************************************************************************)
EXTENDS Integers, Sequences, FiniteSets, TLC

\* ------------------------------------------------------------------ domains
Users == {"u1", "u2"}
MarketIDs == {"m1", "m2"}
Creators == {"alice", "bob"}
ChannelIDs == {"ch1", "ch2"}

\* A missing map key / nil pointer.
NoPtr == <<>>
\* The zero value of time.Time.
ZeroTime == 0

VARIABLES
    subscriptions,   \* repo.subscriptions: user id -> pointer (NoPtr: no entry)
    subObjs,         \* heap of models.Subscription records, indexed by pointer
    channels,        \* repo.channels: channel id -> pointer (NoPtr: no entry)
    chanObjs,        \* heap of models.ChannelConfig records, indexed by pointer
    mu,              \* repo.mutex: the holders of the read lock and of the write lock
    discordSession,  \* h.discordSession # nil
    dpc,             \* position of the dispatching handler
    dEvent,          \* the event_type of the event being dispatched
    dMarket,         \* the market of the event being dispatched
    dChannels,       \* the slice GetAllChannelConfigs returned (pointers)
    dChanTodo,       \* its elements the channel loop has not reached yet
    dChanRead,       \* history: contents of each returned config at the time of the call
    dChanSeen,       \* history: contents of each config when the loop evaluated it
    dSubs,           \* the slice GetAllSubscriptions returned (pointers)
    dSubTodo,        \* its elements the user loop has not reached yet
    dSubRead,        \* history: contents of each returned record at the time of the call
    dSubSeen,        \* history: contents of each record when the loop evaluated it
    dLog,            \* history: the calls made on the Discord session by this dispatch
    dCommands,       \* history: the commands handled since this dispatch began
    clock,           \* time.Now(), in ticks
    lastUpdateSend,  \* history: per channel, the time of the last update message sent to it
    lastOp,          \* history: the last subscription operation and the store before it
    nProbe,          \* arguments and result of a ShouldNotifyUser call
    uProbe,          \* arguments and result of a ShouldSendUpdate call
    calls,           \* the SubscribeToMarket call each goroutine is in, step by step
    lastAccess,      \* history: the last access to a record or map, and the locks held then
    webhooks,        \* repo.webhooks: registration id -> registration (NoReg: no entry)
    aProbe,          \* arguments and result of an AuthOk call
    mProbe           \* arguments and result of a CreateMarketAnnouncement / CreateMarketUpdateMessage call

storeVars == <<subscriptions, subObjs, channels, chanObjs, mu>>
raceVars == <<calls, lastAccess>>
hookVars == <<webhooks, aProbe, mProbe>>
dispatchVars == <<dpc, dEvent, dMarket, dChannels, dChanTodo, dChanRead, dChanSeen,
                  dSubs, dSubTodo, dSubRead, dSubSeen, dLog>>
vars == <<subscriptions, subObjs, channels, chanObjs, mu, discordSession,
          dpc, dEvent, dMarket, dChannels, dChanTodo, dChanRead, dChanSeen,
          dSubs, dSubTodo, dSubRead, dSubSeen, dLog, dCommands, clock, lastUpdateSend,
          lastOp, nProbe, uProbe, raceVars, hookVars>>

\* ------------------------------------------------------------------ helpers
\* A heap without records, and the pointer of the next record made for `id`.
EmptyHeap == [p \in {} |-> NoPtr]

NewPtr(heap, id) == <<id, Cardinality({q \in DOMAIN heap : q[1] = id}) + 1>>

Range(s) == {s[i] : i \in 1..Len(s)}

NoDuplicates(s) == \A i, j \in 1..Len(s) : s[i] = s[j] => i = j

\* `for _, id := range list { if id == x { return ... } }`
RECURSIVE RangeFinds(_, _)
RangeFinds(list, x) ==
    IF list = <<>> THEN FALSE
    ELSE IF Head(list) = x THEN TRUE
    ELSE RangeFinds(Tail(list), x)

Without_DropsAll(list, x) == <<>>

\* `new := []string{}; for _, id := range list { if id != x { new = append(new, id) } }`
RECURSIVE Without(_, _)
Without(list, x) ==
    IF list = <<>> THEN <<>>
    ELSE IF Head(list) # x THEN <<Head(list)>> \o Without(Tail(list), x)
    ELSE Without(Tail(list), x)

\* ------------------------------------------------------------------ repository: the RWMutex
NoHolder == "none"
Unlocked == [readers |-> {}, writer |-> NoHolder]

\* mutex.RLock() returns when no writer holds the lock, mutex.Lock() when nobody does.
CanRLock(m) == m.writer = NoHolder
CanLock(m) == m.writer = NoHolder /\ m.readers = {}

RLock(m, who) == [m EXCEPT !.readers = @ \cup {who}]

RUnlock_KeepsHolding(m, who) == m

RUnlock(m, who) == [m EXCEPT !.readers = @ \ {who}]

Lock(m, who) == [m EXCEPT !.writer = who]
Unlock(m, who) == [m EXCEPT !.writer = NoHolder]

\* ------------------------------------------------------------------ repository: subscriptions
EmptySubscription(u) ==
    [DiscordUserID |-> u, SubscribedMarkets |-> <<>>, SubscribedCreators |-> <<>>]

\* The pointer the repository returns and the record behind it; ptr = NoPtr
\* stands for a freshly made record that no map entry points to.
GetSubscription(u) ==
    IF subscriptions[u] = NoPtr
    THEN [ptr |-> NoPtr, rec |-> EmptySubscription(u)]
    ELSE [ptr |-> subscriptions[u], rec |-> subObjs[subscriptions[u]]]

\* ref.rec is the record as the caller left it (written through ref.ptr).
SaveSubscription(ref) ==
    /\ CanLock(mu)
    /\ IF ref.ptr = NoPtr
       THEN /\ subObjs' = (NewPtr(subObjs, ref.rec.DiscordUserID) :> ref.rec) @@ subObjs
            /\ subscriptions' = [subscriptions EXCEPT ![ref.rec.DiscordUserID] =
                                                         NewPtr(subObjs, ref.rec.DiscordUserID)]
       ELSE /\ subObjs' = [subObjs EXCEPT ![ref.ptr] = ref.rec]
            /\ subscriptions' = [subscriptions EXCEPT ![ref.rec.DiscordUserID] = ref.ptr]

\* The slice of pointers, one per map entry; map iteration order is not
\* specified, so the slice is kept as the set of its elements.
GetAllSubscriptions == {subscriptions[u] : u \in {x \in Users : subscriptions[x] # NoPtr}}

\* ------------------------------------------------------------------ repository: webhook registrations
\* The hex strings generateID can return (hex.EncodeToString of 12 random bytes).
IDSuffixes == {"0a", "0b", "0c"}

\* "wh_" + idBytes
PrefixedID(suffix) ==
    CASE suffix = "0a" -> "wh_0a"
      [] suffix = "0b" -> "wh_0b"
      [] suffix = "0c" -> "wh_0c"
      [] suffix = "" -> "wh_"

\* The keys of repo.webhooks the model follows: the ids RegisterWebhook can
\* make, the bare prefix and the empty id.
WebhookIDs == {PrefixedID(suffix) : suffix \in IDSuffixes} \cup {"wh_", ""}

\* No entry for the key.
NoReg == [ID |-> ""]

\* `repo.webhooks[registration.ID] = registration`
SaveWebhookRegistration(registration) ==
    /\ CanLock(mu)
    /\ webhooks' = [webhooks EXCEPT ![registration.ID] = registration]

GetWebhookRegistration_NotFoundIsError(id) ==
    IF id \in WebhookIDs /\ webhooks[id] # NoReg
    THEN [registration |-> webhooks[id], err |-> FALSE]
    ELSE [registration |-> NoReg, err |-> TRUE]

\* `reg, exists := repo.webhooks[id]`; nil, nil when it does not exist.
GetWebhookRegistration(id) ==
    IF id \in WebhookIDs /\ webhooks[id] # NoReg
    THEN [registration |-> webhooks[id], err |-> FALSE]
    ELSE [registration |-> NoReg, err |-> FALSE]

\* `delete(repo.webhooks, id)`
DeleteWebhookRegistration(id) ==
    /\ CanLock(mu)
    /\ webhooks' = [k \in WebhookIDs |-> IF k = id THEN NoReg ELSE webhooks[k]]

\* The slice of registrations, one per map entry, as the set of its elements.
GetAllWebhookRegistrations == {webhooks[k] : k \in {x \in WebhookIDs : webhooks[x] # NoReg}}

GetWebhookRegistrationsByChannel(channelID) ==
    {reg \in GetAllWebhookRegistrations : reg.ChannelID = channelID}

\* ------------------------------------------------------------------ service: subscriptions
GetUserSubscriptions(u) == GetSubscription(u).rec

SubscribeToMarket_NoCheck(u, m) ==
    /\ SaveSubscription([GetSubscription(u) EXCEPT !.rec.SubscribedMarkets = Append(@, m)])
    /\ UNCHANGED <<channels, chanObjs, mu, discordSession, dispatchVars>>

SubscribeToMarket(u, m) ==
    LET ref == GetSubscription(u) IN
    /\ IF RangeFinds(ref.rec.SubscribedMarkets, m)
       THEN UNCHANGED <<subscriptions, subObjs>>
       ELSE SaveSubscription([ref EXCEPT !.rec.SubscribedMarkets = Append(@, m)])
    /\ UNCHANGED <<channels, chanObjs, mu, discordSession, dispatchVars>>

UnsubscribeFromMarket_DeletesEmptied(u, m) ==
    LET ref == GetSubscription(u)
        left == [ref EXCEPT !.rec.SubscribedMarkets = Without(@, m)]
    IN
    /\ IF left.rec.SubscribedMarkets = <<>> /\ left.rec.SubscribedCreators = <<>>
       THEN /\ CanLock(mu)
            /\ subscriptions' = [subscriptions EXCEPT ![u] = NoPtr]
            /\ UNCHANGED subObjs
       ELSE SaveSubscription(left)
    /\ UNCHANGED <<channels, chanObjs, mu, discordSession, dispatchVars>>

UnsubscribeFromMarket(u, m) ==
    LET ref == GetSubscription(u) IN
    /\ SaveSubscription([ref EXCEPT !.rec.SubscribedMarkets = Without(@, m)])
    /\ UNCHANGED <<channels, chanObjs, mu, discordSession, dispatchVars>>

SubscribeToCreator_NoCheck(u, c) ==
    /\ SaveSubscription([GetSubscription(u) EXCEPT !.rec.SubscribedCreators = Append(@, c)])
    /\ UNCHANGED <<channels, chanObjs, mu, discordSession, dispatchVars>>

SubscribeToCreator(u, c) ==
    LET ref == GetSubscription(u) IN
    /\ IF RangeFinds(ref.rec.SubscribedCreators, c)
       THEN UNCHANGED <<subscriptions, subObjs>>
       ELSE SaveSubscription([ref EXCEPT !.rec.SubscribedCreators = Append(@, c)])
    /\ UNCHANGED <<channels, chanObjs, mu, discordSession, dispatchVars>>

UnsubscribeFromCreator(u, c) ==
    LET ref == GetSubscription(u) IN
    /\ SaveSubscription([ref EXCEPT !.rec.SubscribedCreators = Without(@, c)])
    /\ UNCHANGED <<channels, chanObjs, mu, discordSession, dispatchVars>>

\* ------------------------------------------------------------------ service: notification policy
ShouldNotifyUser_MarketsOnly(subscription, market) ==
    RangeFinds(subscription.SubscribedMarkets, market.ID)

ShouldNotifyUser(subscription, market) ==
    IF RangeFinds(subscription.SubscribedMarkets, market.ID) THEN TRUE
    ELSE IF RangeFinds(subscription.SubscribedCreators, market.Creator) THEN TRUE
    ELSE FALSE

\* Times and durations are counted in ticks of five minutes.
FifteenMinutes == 3
ThirtyMinutes == 6
OneHour == 12
ThreeHours == 36
SixHours == 72
\* The largest time.Duration (2^63 - 1 ns, about 292 years), in ticks.
MaxDuration == 30744573

\* Time.Sub: the difference, saturated to the range of time.Duration.
Sub(t, u) ==
    IF t - u > MaxDuration THEN MaxDuration
    ELSE IF t - u < 0 - MaxDuration THEN 0 - MaxDuration
    ELSE t - u

ShouldSendUpdate_NoStatusCheck(market, frequency, lastUpdate, now) ==
    IF Sub(market.EndTime, now) < SixHours THEN Sub(now, lastUpdate) >= FifteenMinutes
    ELSE IF frequency = "high" THEN Sub(now, lastUpdate) >= ThirtyMinutes
    ELSE IF frequency = "low" THEN Sub(now, lastUpdate) >= ThreeHours
    ELSE Sub(now, lastUpdate) >= OneHour

ShouldSendUpdate_NoClosingSoon(market, frequency, lastUpdate, now) ==
    IF market.Status # "active" THEN FALSE
    ELSE IF frequency = "high" THEN Sub(now, lastUpdate) >= ThirtyMinutes
    ELSE IF frequency = "low" THEN Sub(now, lastUpdate) >= ThreeHours
    ELSE Sub(now, lastUpdate) >= OneHour

ShouldSendUpdate_ClosingSoonHourly(market, frequency, lastUpdate, now) ==
    IF market.Status # "active" THEN FALSE
    ELSE IF Sub(market.EndTime, now) < SixHours THEN Sub(now, lastUpdate) >= OneHour
    ELSE IF frequency = "high" THEN Sub(now, lastUpdate) >= ThirtyMinutes
    ELSE IF frequency = "low" THEN Sub(now, lastUpdate) >= ThreeHours
    ELSE Sub(now, lastUpdate) >= OneHour

ShouldSendUpdate_LowAsMedium(market, frequency, lastUpdate, now) ==
    IF market.Status # "active" THEN FALSE
    ELSE IF Sub(market.EndTime, now) < SixHours THEN Sub(now, lastUpdate) >= FifteenMinutes
    ELSE IF frequency = "high" THEN Sub(now, lastUpdate) >= ThirtyMinutes
    ELSE Sub(now, lastUpdate) >= OneHour

\* `now` is the value of time.Now() during the call.
ShouldSendUpdate(market, frequency, lastUpdate, now) ==
    IF market.Status # "active" THEN FALSE
    ELSE LET timeSinceLastUpdate == Sub(now, lastUpdate)
             timeLeft == Sub(market.EndTime, now)
         IN IF timeLeft < SixHours THEN timeSinceLastUpdate >= FifteenMinutes
            ELSE CASE frequency = "high" -> timeSinceLastUpdate >= ThirtyMinutes
                   [] frequency = "medium" -> timeSinceLastUpdate >= OneHour
                   [] frequency = "low" -> timeSinceLastUpdate >= ThreeHours
                   [] OTHER -> timeSinceLastUpdate >= OneHour

\* ------------------------------------------------------------------ repository: channel configs
DefaultChannelConfig_Disabled(c) ==
    [ChannelID |-> c, FeedEnabled |-> FALSE, AllowedCategories |-> <<>>,
     FrequencyMode |-> "medium", LastUpdateTimestamp |-> ZeroTime]

DefaultChannelConfig(c) ==
    [ChannelID |-> c, FeedEnabled |-> TRUE, AllowedCategories |-> <<>>,
     FrequencyMode |-> "medium", LastUpdateTimestamp |-> ZeroTime]

GetChannelConfig(c) ==
    IF channels[c] = NoPtr
    THEN [ptr |-> NoPtr, rec |-> DefaultChannelConfig(c)]
    ELSE [ptr |-> channels[c], rec |-> chanObjs[channels[c]]]

\* ref.rec is the config as the caller left it (written through ref.ptr).
SaveChannelConfig(ref) ==
    /\ CanLock(mu)
    /\ IF ref.ptr = NoPtr
       THEN /\ chanObjs' = (NewPtr(chanObjs, ref.rec.ChannelID) :> ref.rec) @@ chanObjs
            /\ channels' = [channels EXCEPT ![ref.rec.ChannelID] = NewPtr(chanObjs, ref.rec.ChannelID)]
       ELSE /\ chanObjs' = [chanObjs EXCEPT ![ref.ptr] = ref.rec]
            /\ channels' = [channels EXCEPT ![ref.rec.ChannelID] = ref.ptr]

\* The slice of pointers, one per map entry, as the set of its elements.
GetAllChannelConfigs == {channels[c] : c \in {x \in ChannelIDs : channels[x] # NoPtr}}

UpdateChannelConfig(ref) == SaveChannelConfig(ref)

\* ------------------------------------------------------------------ channel admin commands
\* The `categories` option values the model issues, and what
\* strings.Split(categories, ",") followed by strings.TrimSpace makes of each.
CategoryOptions == {"sports, politics"}

SplitTrim(categories) ==
    CASE categories = "sports, politics" -> <<"sports", "politics">>
      [] categories = "politics" -> <<"politics">>
      [] categories = "" -> <<"">>

handleChannelFeedNewMarkets(c, setting) ==
    LET ref == GetChannelConfig(c) IN
    /\ UpdateChannelConfig([ref EXCEPT !.rec.FeedEnabled = (setting = "on")])
    /\ UNCHANGED <<subscriptions, subObjs, mu, discordSession, dispatchVars>>

handleChannelFeedCategories(c, categories) ==
    LET ref == GetChannelConfig(c) IN
    /\ UpdateChannelConfig([ref EXCEPT !.rec.AllowedCategories = SplitTrim(categories)])
    /\ UNCHANGED <<subscriptions, subObjs, mu, discordSession, dispatchVars>>

handleChannelFeedFrequency(c, frequency) ==
    LET ref == GetChannelConfig(c) IN
    /\ UpdateChannelConfig([ref EXCEPT !.rec.FrequencyMode = frequency])
    /\ UNCHANGED <<subscriptions, subObjs, mu, discordSession, dispatchVars>>

\* `config, err := h.subscriptionService.GetChannelConfig(channelID)`, then the
\* response is formatted from config; nothing is saved.
handleChannelSettings(c) ==
    /\ CanRLock(mu)
    /\ UNCHANGED <<storeVars, discordSession, dispatchVars>>

\* `subscription, err := h.subscriptionService.GetUserSubscriptions(userID)`,
\* then the response is formatted from subscription; nothing is saved.
handleListSubscriptions(u) ==
    /\ CanRLock(mu)
    /\ UNCHANGED <<storeVars, discordSession, dispatchVars>>

\* ------------------------------------------------------------------ webhook handler: fan-out dispatch
SetDiscordSession ==
    /\ ~discordSession
    /\ discordSession' = TRUE
    /\ UNCHANGED <<storeVars, dispatchVars>>

\* No gap: no update message was sent to the channel before.
NoGap == 0 - 1

NoLog ==
    [chanSends |-> [c \in ChannelIDs |-> 0], chanFailed |-> {},
     chanSendAt |-> [c \in ChannelIDs |-> ZeroTime], chanGap |-> [c \in ChannelIDs |-> NoGap],
     dmCreates |-> [u \in Users |-> 0], dmCreateFailed |-> {},
     dmSends |-> [u \in Users |-> 0], dmSendFailed |-> {}]

\* `if len(AllowedCategories) > 0 { allowed := false; for ... ; if !allowed { continue } }`
CategoryAllowed_NoFilter(allowed, category) == TRUE

CategoryAllowed(allowed, category) ==
    IF Len(allowed) > 0 THEN RangeFinds(allowed, category) ELSE TRUE

ChannelDelivers_HonoursRegistrations(cfg, market) ==
    IF ~cfg.FeedEnabled THEN FALSE
    ELSE /\ CategoryAllowed(cfg.AllowedCategories, market.Category)
         /\ \A reg \in GetWebhookRegistrationsByChannel(cfg.ChannelID) :
               CategoryAllowed(reg.AllowedCategories, market.Category)

\* Whether the channel loop sends to a config with these contents.
ChannelDelivers(cfg, market) ==
    IF ~cfg.FeedEnabled THEN FALSE
    ELSE CategoryAllowed(cfg.AllowedCategories, market.Category)

\* ChannelMessageSend(channelID, message) was called and returned err = nil (ok) or not.
LogChannelSend(log, c, ok) ==
    [log EXCEPT !.chanSends[c] = @ + 1,
                !.chanFailed = IF ok THEN @ ELSE @ \cup {c}]

\* The time of the ChannelMessageSend call and, for an update message that was
\* sent, the time since the last update message sent to the channel.
LogSendTime(log, c, ok) ==
    [log EXCEPT !.chanSendAt[c] = clock,
                !.chanGap[c] = IF ok /\ dEvent = "market_update" /\ lastUpdateSend[c] # ZeroTime
                               THEN clock - lastUpdateSend[c] ELSE @]

\* UserChannelCreate(u) was called and, when it returned a channel, ChannelMessageSend on it.
DMOutcomes == {"ok", "createFailed", "sendFailed"}

LogDM(log, u, outcome) ==
    [log EXCEPT !.dmCreates[u] = @ + 1,
                !.dmCreateFailed = IF outcome = "createFailed" THEN @ \cup {u} ELSE @,
                !.dmSends[u] = IF outcome = "createFailed" THEN @ ELSE @ + 1,
                !.dmSendFailed = IF outcome = "sendFailed" THEN @ \cup {u} ELSE @]

\* The elements left to the channel loop after the iteration on p.
ChannelLoopRest_ReturnsOnError(todo, p, sent, ok) ==
    IF sent /\ ~ok THEN {} ELSE todo \ {p}

ChannelLoopRest_RetriesOnError(todo, p, sent, ok) ==
    IF sent /\ ~ok THEN todo ELSE todo \ {p}

ChannelLoopRest(todo, p, sent, ok) == todo \ {p}

\* The elements left to the user loop after the iteration on p.
UserLoopRest(todo, p, notified, outcome) == todo \ {p}

sendToSubscribedChannels_Begin_NoSessionCheck(event, market) ==
    /\ dpc = "idle"
    /\ dpc' = "channels"
    /\ dEvent' = event
    /\ dMarket' = market
    /\ CanRLock(mu)
    /\ mu' = RUnlock(RLock(mu, "dispatch"), "dispatch")
    /\ dChannels' = GetAllChannelConfigs
    /\ dChanTodo' = GetAllChannelConfigs
    /\ dChanRead' = [p \in GetAllChannelConfigs |-> chanObjs[p]]
    /\ dChanSeen' = EmptyHeap
    /\ dSubs' = {}
    /\ dSubTodo' = {}
    /\ dSubRead' = EmptyHeap
    /\ dSubSeen' = EmptyHeap
    /\ dLog' = NoLog
    /\ UNCHANGED <<subscriptions, subObjs, channels, chanObjs, discordSession, lastUpdateSend>>

\* sendToSubscribedChannels up to the loop: the session check and GetAllChannelConfigs.
sendToSubscribedChannels_Begin(event, market) ==
    /\ dpc = "idle"
    /\ dpc' = "channels"
    /\ dEvent' = event
    /\ dMarket' = market
    /\ discordSession => CanRLock(mu)
    /\ mu' = IF discordSession THEN RUnlock(RLock(mu, "dispatch"), "dispatch") ELSE mu
    /\ LET got == IF discordSession THEN GetAllChannelConfigs ELSE {} IN
          /\ dChannels' = got
          /\ dChanTodo' = got
          /\ dChanRead' = [p \in got |-> chanObjs[p]]
    /\ dChanSeen' = EmptyHeap
    /\ dSubs' = {}
    /\ dSubTodo' = {}
    /\ dSubRead' = EmptyHeap
    /\ dSubSeen' = EmptyHeap
    /\ dLog' = NoLog
    /\ UNCHANGED <<subscriptions, subObjs, channels, chanObjs, discordSession, lastUpdateSend>>

\* One iteration of the channel loop, on the config p points to.
sendToSubscribedChannels_Iterate(p, ok) ==
    /\ dpc = "channels"
    /\ p \in dChanTodo
    /\ LET cfg == chanObjs[p]
           sent == ChannelDelivers(cfg, dMarket)
       IN /\ dChanSeen' = (p :> cfg) @@ dChanSeen
          /\ dLog' = IF sent
                      THEN LogSendTime(LogChannelSend(dLog, cfg.ChannelID, ok), cfg.ChannelID, ok)
                      ELSE dLog
          /\ lastUpdateSend' = IF sent /\ ok /\ dEvent = "market_update"
                                THEN [lastUpdateSend EXCEPT ![cfg.ChannelID] = clock]
                                ELSE lastUpdateSend
          /\ dChanTodo' = ChannelLoopRest(dChanTodo, p, sent, ok)
    /\ UNCHANGED <<storeVars, discordSession, dpc, dEvent, dMarket, dChannels, dChanRead,
                   dSubs, dSubTodo, dSubRead, dSubSeen>>

\* The channel loop is over; sendToSubscribedUsers up to its loop.
sendToSubscribedUsers_Begin ==
    /\ dpc = "channels"
    /\ dChanTodo = {}
    /\ dpc' = "users"
    /\ discordSession => CanRLock(mu)
    /\ mu' = IF discordSession THEN RUnlock(RLock(mu, "dispatch"), "dispatch") ELSE mu
    /\ LET got == IF discordSession THEN GetAllSubscriptions ELSE {} IN
          /\ dSubs' = got
          /\ dSubTodo' = got
          /\ dSubRead' = [p \in got |-> subObjs[p]]
    /\ UNCHANGED <<subscriptions, subObjs, channels, chanObjs, discordSession, dEvent, dMarket, dChannels, dChanTodo,
                   dChanRead, dChanSeen, dSubSeen, dLog, lastUpdateSend>>

\* One iteration of the user loop, on the record p points to.
sendToSubscribedUsers_Iterate(p, outcome) ==
    /\ dpc = "users"
    /\ p \in dSubTodo
    /\ LET sub == subObjs[p]
           notified == ShouldNotifyUser(sub, dMarket)
       IN /\ dSubSeen' = (p :> sub) @@ dSubSeen
          /\ dLog' = IF notified THEN LogDM(dLog, sub.DiscordUserID, outcome) ELSE dLog
          /\ dSubTodo' = UserLoopRest(dSubTodo, p, notified, outcome)
    /\ UNCHANGED <<storeVars, discordSession, dpc, dEvent, dMarket, dChannels, dChanTodo,
                   dChanRead, dChanSeen, dSubs, dSubRead, lastUpdateSend>>

\* The user loop is over: sendToSubscribedUsers returns to the event handler.
sendToSubscribedUsers_Return ==
    /\ dpc = "users"
    /\ dSubTodo = {}
    /\ dpc' = "done"
    /\ UNCHANGED <<storeVars, discordSession, dEvent, dMarket, dChannels, dChanTodo,
                   dChanRead, dChanSeen, dSubs, dSubTodo, dSubRead, dSubSeen, dLog,
                   lastUpdateSend>>

NoMarket == [ID |-> "", Category |-> "", Creator |-> "", Status |-> "", EndTime |-> ZeroTime]

\* The event handler writes its response and returns; its locals are gone.
HandleEvent_Respond ==
    /\ dpc = "done"
    /\ dpc' = "idle"
    /\ dEvent' = ""
    /\ dMarket' = NoMarket
    /\ dChannels' = {}
    /\ dChanTodo' = {}
    /\ dChanRead' = EmptyHeap
    /\ dChanSeen' = EmptyHeap
    /\ dSubs' = {}
    /\ dSubTodo' = {}
    /\ dSubRead' = EmptyHeap
    /\ dSubSeen' = EmptyHeap
    /\ dLog' = NoLog
    /\ UNCHANGED <<storeVars, discordSession, lastUpdateSend>>

\* ------------------------------------------------------------------ initial state
\* The goroutines that run SubscribeToMarket step by step, and one that runs no call.
Goroutines == {"g1", "g2"}
NoCall == [pc |-> "idle", user |-> "", market |-> "", ptr |-> NoPtr, read |-> <<>>]
NoAccess == [op |-> "none", stored |-> FALSE, shared |-> FALSE, exclusive |-> FALSE]

\* time.Now() when the bot starts (ticks since the zero time; 2026).
StartTime == 213100000

\* A probe no call was made with.
IdleProbe == [called |-> FALSE]

InitProgram ==
    /\ subscriptions = [u \in Users |-> NoPtr]
    /\ subObjs = EmptyHeap
    /\ channels = [c \in ChannelIDs |-> NoPtr]
    /\ chanObjs = EmptyHeap
    /\ mu = Unlocked
    /\ discordSession = FALSE
    /\ dpc = "idle"
    /\ dEvent = ""
    /\ dMarket = NoMarket
    /\ dChannels = {}
    /\ dChanTodo = {}
    /\ dChanRead = EmptyHeap
    /\ dChanSeen = EmptyHeap
    /\ dSubs = {}
    /\ dSubTodo = {}
    /\ dSubRead = EmptyHeap
    /\ dSubSeen = EmptyHeap
    /\ dLog = NoLog
    /\ dCommands = 0
    /\ clock = StartTime
    /\ lastUpdateSend = [c \in ChannelIDs |-> ZeroTime]
    /\ lastOp = [op |-> "none"]
    /\ calls = [g \in Goroutines |-> NoCall]
    /\ lastAccess = NoAccess
    /\ webhooks = [id \in WebhookIDs |-> NoReg]

Init ==
    /\ InitProgram
    /\ nProbe = IdleProbe
    /\ uProbe = IdleProbe
    /\ aProbe = IdleProbe
    /\ mProbe = IdleProbe

\* ------------------------------------------------------------------ the subscription commands, one at a time
Before == [subscriptions |-> subscriptions, subObjs |-> subObjs]

SubsNext ==
    \/ \E u \in Users, m \in MarketIDs :
         /\ SubscribeToMarket(u, m)
         /\ lastOp' = [op |-> "SubscribeToMarket", user |-> u, id |-> m, before |-> Before]
         /\ UNCHANGED <<dCommands, clock, lastUpdateSend, nProbe, uProbe, raceVars, hookVars>>
    \/ \E u \in Users, m \in MarketIDs :
         /\ UnsubscribeFromMarket(u, m)
         /\ lastOp' = [op |-> "UnsubscribeFromMarket", user |-> u, id |-> m, before |-> Before]
         /\ UNCHANGED <<dCommands, clock, lastUpdateSend, nProbe, uProbe, raceVars, hookVars>>
    \/ \E u \in Users, c \in Creators :
         /\ SubscribeToCreator(u, c)
         /\ lastOp' = [op |-> "SubscribeToCreator", user |-> u, id |-> c, before |-> Before]
         /\ UNCHANGED <<dCommands, clock, lastUpdateSend, nProbe, uProbe, raceVars, hookVars>>
    \/ \E u \in Users, c \in Creators :
         /\ UnsubscribeFromCreator(u, c)
         /\ lastOp' = [op |-> "UnsubscribeFromCreator", user |-> u, id |-> c, before |-> Before]
         /\ UNCHANGED <<dCommands, clock, lastUpdateSend, nProbe, uProbe, raceVars, hookVars>>
    \/ \E u \in Users :
         /\ handleListSubscriptions(u)
         /\ lastOp' = [op |-> "handleListSubscriptions", user |-> u, id |-> "",
                       before |-> Before, subscription |-> GetUserSubscriptions(u)]
         /\ UNCHANGED <<dCommands, clock, lastUpdateSend, nProbe, uProbe, raceVars, hookVars>>

SpecSubs == Init /\ [][SubsNext]_vars

\* ------------------------------------------------------------------ the running bot
\* The events the model dispatches.
EventMarkets ==
    {[ID |-> "m1", Category |-> "politics", Creator |-> "alice",
      Status |-> "active", EndTime |-> StartTime + 120],
     [ID |-> "m2", Category |-> "tech", Creator |-> "bob",
      Status |-> "active", EndTime |-> StartTime + 120]}

\* The number of subscription and admin commands the model lets complete
\* while one dispatch is under way.
MaxCommandsDuringDispatch == 2

Command ==
    \/ \E u \in Users : SubscribeToMarket(u, "m1")
    \/ \E u \in Users : UnsubscribeFromMarket(u, "m1")
    \/ \E c \in ChannelIDs, setting \in {"on", "off"} : handleChannelFeedNewMarkets(c, setting)
    \/ \E c \in ChannelIDs, o \in CategoryOptions : handleChannelFeedCategories(c, o)

Dispatch ==
    \/ \E market \in EventMarkets : sendToSubscribedChannels_Begin("new_market", market)
    \/ \E p \in dChanTodo, ok \in BOOLEAN : sendToSubscribedChannels_Iterate(p, ok)
    \/ sendToSubscribedUsers_Begin
    \/ \E p \in dSubTodo, outcome \in DMOutcomes : sendToSubscribedUsers_Iterate(p, outcome)
    \/ sendToSubscribedUsers_Return

\* A command that completes while a dispatch is under way counts against the
\* budget of that dispatch.
CountCommand ==
    IF dpc = "idle" THEN UNCHANGED dCommands
    ELSE dCommands < MaxCommandsDuringDispatch /\ dCommands' = dCommands + 1

Next ==
    \/ SetDiscordSession /\ UNCHANGED <<dCommands, clock, lastUpdateSend, lastOp, nProbe, uProbe, raceVars, hookVars>>
    \/ Command /\ CountCommand /\ UNCHANGED <<clock, lastUpdateSend, lastOp, nProbe, uProbe, raceVars, hookVars>>
    \/ Dispatch /\ UNCHANGED <<dCommands, clock, lastOp, nProbe, uProbe, raceVars, hookVars>>
    \/ HandleEvent_Respond /\ dCommands' = 0 /\ UNCHANGED <<clock, lastOp, nProbe, uProbe, raceVars, hookVars>>

Spec == Init /\ [][Next]_vars

\* ------------------------------------------------------------------ calls of the policy functions
\* Length of the longest subscription list handed to ShouldNotifyUser.
MaxListLen == 2
\* time.Now() of the ShouldSendUpdate calls (ticks since the zero time; 2026).
ProbeNow == 213100000
\* Longest time since the last update, and longest time left (before and after
\* the end), in ticks.
MaxElapsed == 38
MaxRemaining == 122
MaxOverdue == 2

SeqsUpTo(S, n) == UNION {[1..k -> S] : k \in 0..n}

ProbeStatuses == {"active", "closed", "resolved", ""}
ProbeFrequencies == {"high", "medium", "low", "", "daily"}

NotifyArgs ==
    [sub : [DiscordUserID : {"u1"},
            SubscribedMarkets : SeqsUpTo(MarketIDs, MaxListLen),
            SubscribedCreators : SeqsUpTo(Creators, MaxListLen)],
     market : [ID : MarketIDs, Category : {"politics"}, Creator : Creators]]

\* `given` keeps the arguments as they were handed over.
NotifyProbes ==
    {[sub |-> a.sub, market |-> a.market, given |-> a, called |-> FALSE, result |-> FALSE] :
        a \in NotifyArgs}

UpdateProbes ==
    [market : [Status : ProbeStatuses,
               EndTime : {ProbeNow + r : r \in (0 - MaxOverdue)..MaxRemaining}],
     frequency : ProbeFrequencies,
     lastUpdate : {ZeroTime} \cup {ProbeNow - e : e \in 0..MaxElapsed},
     now : {ProbeNow},
     called : {FALSE},
     result : {FALSE}]

CallShouldNotifyUser ==
    /\ ~nProbe.called
    /\ nProbe' = [nProbe EXCEPT !.called = TRUE,
                                 !.result = ShouldNotifyUser(nProbe.sub, nProbe.market)]
    /\ UNCHANGED <<storeVars, discordSession, dispatchVars, dCommands, clock, lastUpdateSend,
                   lastOp, uProbe, raceVars, hookVars>>

CallShouldSendUpdate ==
    /\ ~uProbe.called
    /\ uProbe' = [uProbe EXCEPT !.called = TRUE, !.result =
                     ShouldSendUpdate(uProbe.market, uProbe.frequency, uProbe.lastUpdate, uProbe.now)]
    /\ UNCHANGED <<storeVars, discordSession, dispatchVars, dCommands, clock, lastUpdateSend,
                   lastOp, nProbe, raceVars, hookVars>>

InitNotify ==
    /\ InitProgram
    /\ nProbe \in NotifyProbes
    /\ uProbe = IdleProbe
    /\ aProbe = IdleProbe
    /\ mProbe = IdleProbe

InitCadence ==
    /\ InitProgram
    /\ nProbe = IdleProbe
    /\ uProbe \in UpdateProbes
    /\ aProbe = IdleProbe
    /\ mProbe = IdleProbe

SpecNotify == InitNotify /\ [][CallShouldNotifyUser]_vars

SpecCadence == InitCadence /\ [][CallShouldSendUpdate]_vars

\* ------------------------------------------------------------------ claims on the policy functions
\* C1: ShouldNotifyUser(S, M) is true exactly when M.ID is an element of
\* S.SubscribedMarkets or M.Creator is an element of S.SubscribedCreators; the
\* call leaves its arguments and the store as they were.
C1_ShouldNotifyUserIff ==
    nProbe.called =>
        /\ nProbe.result =
              (\/ \E i \in 1..Len(nProbe.sub.SubscribedMarkets) :
                     nProbe.sub.SubscribedMarkets[i] = nProbe.market.ID
               \/ \E i \in 1..Len(nProbe.sub.SubscribedCreators) :
                     nProbe.sub.SubscribedCreators[i] = nProbe.market.Creator)
        /\ nProbe.sub = nProbe.given.sub
        /\ nProbe.market = nProbe.given.market
        /\ GetAllSubscriptions = {}
        /\ subObjs = EmptyHeap

\* A call that is true by the creator alone: the market id is not subscribed,
\* the creator is the second of two subscribed creators.
C1_Witness ==
    /\ nProbe.called
    /\ nProbe.result = TRUE
    /\ nProbe.market.ID \notin Range(nProbe.sub.SubscribedMarkets)
    /\ Len(nProbe.sub.SubscribedMarkets) = 1
    /\ Len(nProbe.sub.SubscribedCreators) = 2
    /\ nProbe.sub.SubscribedCreators[2] = nProbe.market.Creator
    /\ nProbe.sub.SubscribedCreators[1] # nProbe.market.Creator

\* C9: ShouldSendUpdate is false for every market whose status is not
\* "active", whatever the tier, the time since the last update and the time left.
C9_InactiveNeverUpdates ==
    (uProbe.called /\ uProbe.market.Status # "active") => uProbe.result = FALSE

\* A resolved market, closing within the hour, tier high, three hours since the
\* last update: every time rule would allow the update.
C9_Witness ==
    /\ uProbe.called
    /\ uProbe.result = FALSE
    /\ uProbe.market.Status = "resolved"
    /\ uProbe.frequency = "high"
    /\ uProbe.market.EndTime - uProbe.now = 6
    /\ uProbe.now - uProbe.lastUpdate = 36

\* C10: for an active market with less than 6 hours (72 ticks) left, also when
\* the end time has passed, ShouldSendUpdate is true exactly when at least 15
\* minutes (3 ticks) have passed since the last update, whatever the tier.
C10_ClosingSoonFifteenMinutes ==
    (/\ uProbe.called
     /\ uProbe.market.Status = "active"
     /\ uProbe.market.EndTime - uProbe.now < 72)
        => uProbe.result = (uProbe.now - uProbe.lastUpdate >= 3)

\* 3 hours left, tier high, 20 minutes since the last update: true.
C10_Witness ==
    /\ uProbe.called
    /\ uProbe.result = TRUE
    /\ uProbe.market.Status = "active"
    /\ uProbe.frequency = "high"
    /\ uProbe.market.EndTime - uProbe.now = 36
    /\ uProbe.now - uProbe.lastUpdate = 4

\* ------------------------------------------------------------------ claims on the subscription commands
\* What GetUserSubscriptions(u) returned in the store `st` (lastOp.before).
RecordIn(st, u) ==
    IF st.subscriptions[u] = NoPtr THEN EmptySubscription(u)
    ELSE st.subObjs[st.subscriptions[u]]

\* The stored record of user v is the same (or as absent) as before the last command.
SameStoredRecord(v) ==
    /\ (subscriptions[v] = NoPtr) <=> (lastOp.before.subscriptions[v] = NoPtr)
    /\ subscriptions[v] # NoPtr => subObjs[subscriptions[v]] = RecordIn(lastOp.before, v)

MarketsBefore == RecordIn(lastOp.before, lastOp.user).SubscribedMarkets
CreatorsBefore == RecordIn(lastOp.before, lastOp.user).SubscribedCreators
MarketsNow == GetUserSubscriptions(lastOp.user).SubscribedMarkets
CreatorsNow == GetUserSubscriptions(lastOp.user).SubscribedCreators

\* C2: subscribing to a market (creator) the user already has, and unsubscribing
\* from one the user does not have, leaves the user's market (creator) list, and
\* so the set of its elements, exactly as it was.
C2_NoOpCommandsKeepTheSet ==
    /\ (lastOp.op = "SubscribeToMarket" /\ lastOp.id \in Range(MarketsBefore))
          => MarketsNow = MarketsBefore
    /\ (lastOp.op = "UnsubscribeFromMarket" /\ lastOp.id \notin Range(MarketsBefore))
          => MarketsNow = MarketsBefore
    /\ (lastOp.op = "SubscribeToCreator" /\ lastOp.id \in Range(CreatorsBefore))
          => CreatorsNow = CreatorsBefore
    /\ (lastOp.op = "UnsubscribeFromCreator" /\ lastOp.id \notin Range(CreatorsBefore))
          => CreatorsNow = CreatorsBefore

\* A second SubscribeToMarket for a market the user holds beside another one.
C2_Witness ==
    /\ lastOp.op = "SubscribeToMarket"
    /\ lastOp.id \in Range(MarketsBefore)
    /\ Len(MarketsBefore) = 2
    /\ MarketsNow = MarketsBefore

\* C3: after SubscribeToMarket(u, m) the user's subscriptions contain m, after
\* UnsubscribeFromMarket(u, m) they do not; the user's other market ids, the
\* user's creator list and every other user's record are as before.  The same
\* for SubscribeToCreator / UnsubscribeFromCreator with the roles swapped.
C3_SubscribeUnsubscribeFrame ==
    /\ lastOp.op = "SubscribeToMarket" =>
          /\ lastOp.id \in Range(MarketsNow)
          /\ Range(MarketsNow) \ {lastOp.id} = Range(MarketsBefore) \ {lastOp.id}
          /\ CreatorsNow = CreatorsBefore
          /\ \A v \in Users \ {lastOp.user} : SameStoredRecord(v)
    /\ lastOp.op = "UnsubscribeFromMarket" =>
          /\ lastOp.id \notin Range(MarketsNow)
          /\ Range(MarketsNow) \ {lastOp.id} = Range(MarketsBefore) \ {lastOp.id}
          /\ CreatorsNow = CreatorsBefore
          /\ \A v \in Users \ {lastOp.user} : SameStoredRecord(v)
    /\ lastOp.op = "SubscribeToCreator" =>
          /\ lastOp.id \in Range(CreatorsNow)
          /\ Range(CreatorsNow) \ {lastOp.id} = Range(CreatorsBefore) \ {lastOp.id}
          /\ MarketsNow = MarketsBefore
          /\ \A v \in Users \ {lastOp.user} : SameStoredRecord(v)
    /\ lastOp.op = "UnsubscribeFromCreator" =>
          /\ lastOp.id \notin Range(CreatorsNow)
          /\ Range(CreatorsNow) \ {lastOp.id} = Range(CreatorsBefore) \ {lastOp.id}
          /\ MarketsNow = MarketsBefore
          /\ \A v \in Users \ {lastOp.user} : SameStoredRecord(v)

\* An UnsubscribeFromMarket that removed one of two markets of a user who also
\* follows a creator, while the other user has a stored record.
C3_Witness ==
    /\ lastOp.op = "UnsubscribeFromMarket"
    /\ lastOp.id \in Range(MarketsBefore)
    /\ Len(MarketsBefore) = 2
    /\ Len(MarketsNow) = 1
    /\ CreatorsNow # <<>>
    /\ \E v \in Users \ {lastOp.user} :
          /\ subscriptions[v] # NoPtr
          /\ subObjs[subscriptions[v]].SubscribedMarkets # <<>>

\* C4: no stored market list and no stored creator list holds an identifier
\* twice, and GetAllSubscriptions holds at most one record per user id.
C4_NoDuplicates ==
    /\ \A p \in GetAllSubscriptions :
          /\ NoDuplicates(subObjs[p].SubscribedMarkets)
          /\ NoDuplicates(subObjs[p].SubscribedCreators)
    /\ \A p, q \in GetAllSubscriptions :
          subObjs[p].DiscordUserID = subObjs[q].DiscordUserID => p = q

\* Both users stored with two markets and two creators each, the last command a
\* repeated SubscribeToCreator.
C4_Witness ==
    /\ lastOp.op = "SubscribeToCreator"
    /\ lastOp.id \in Range(CreatorsBefore)
    /\ Cardinality(GetAllSubscriptions) = 2
    /\ \A p \in GetAllSubscriptions :
          /\ Len(subObjs[p].SubscribedMarkets) = 2
          /\ Len(subObjs[p].SubscribedCreators) = 2


\* ------------------------------------------------------------------ claims on the fan-out dispatch
\* The number of ChannelMessageSend calls the current dispatch made on the
\* channel of the config p points to, the config being as the loop found it.
SendsTo(p) == dLog.chanSends[dChanSeen[p].ChannelID]

\* C5: in the channel pass, a channel whose allowed-category list is non-empty
\* gets a delivery attempt only if the market's category is an element of the
\* list; an empty list excludes the channel for no category: the enabled
\* channel with an empty list gets its attempt.  The config is the one the
\* loop iteration reads.
C5_CategoryFilter ==
    \A p \in DOMAIN dChanSeen :
        /\ (Len(dChanSeen[p].AllowedCategories) > 0 /\ SendsTo(p) > 0)
              => dMarket.Category \in Range(dChanSeen[p].AllowedCategories)
        /\ (dChanSeen[p].FeedEnabled /\ Len(dChanSeen[p].AllowedCategories) = 0)
              => SendsTo(p) > 0

\* A finished dispatch of the "tech" market over an enabled channel with the
\* list <<"sports", "politics">>, left out, and an enabled channel with the
\* empty list, sent to.
C5_Witness ==
    /\ dpc = "done"
    /\ dMarket.Category = "tech"
    /\ \E p, q \in DOMAIN dChanSeen :
          /\ dChanSeen[p].FeedEnabled
          /\ dChanSeen[p].AllowedCategories = <<"sports", "politics">>
          /\ SendsTo(p) = 0
          /\ dChanSeen[q].FeedEnabled
          /\ dChanSeen[q].AllowedCategories = <<>>
          /\ SendsTo(q) = 1

\* C6: no dispatch attempts a delivery to a channel whose stored config had
\* FeedEnabled = false when the dispatch read the channel configs
\* (GetAllChannelConfigs), and once the channel pass is over every channel that
\* was then enabled and passed the category filter has got a delivery attempt.
C6_DecidedOnConfigsAsRead ==
    /\ \A p \in dChannels :
          dLog.chanSends[dChanRead[p].ChannelID] > 0 => dChanRead[p].FeedEnabled
    /\ dpc \in {"users", "done"} =>
          \A p \in dChannels :
              (/\ dChanRead[p].FeedEnabled
               /\ CategoryAllowed(dChanRead[p].AllowedCategories, dMarket.Category))
                 => dLog.chanSends[dChanRead[p].ChannelID] > 0

\* The channels and users the finished passes found eligible.
EligibleChannels == {p \in DOMAIN dChanSeen : ChannelDelivers(dChanSeen[p], dMarket)}
UsersToNotify == {p \in DOMAIN dSubSeen : ShouldNotifyUser(dSubSeen[p], dMarket)}

\* C7: a failed delivery stops nothing.  A dispatch under way can always take
\* its next step; when the channel pass is over it has been over every config
\* read and every eligible channel has got its attempt, whichever sends failed;
\* when the user pass is over it has been over every subscription read and
\* every user to notify has got a UserChannelCreate; the DM send follows
\* exactly the creates that did not fail.
C7_FailuresDoNotStopDispatch ==
    /\ dpc \in {"channels", "users"} => ENABLED Dispatch
    /\ dpc \in {"users", "done"} =>
          /\ DOMAIN dChanSeen = dChannels
          /\ \A p \in EligibleChannels : SendsTo(p) >= 1
    /\ dpc = "done" =>
          /\ DOMAIN dSubSeen = dSubs
          /\ \A p \in UsersToNotify : dLog.dmCreates[dSubSeen[p].DiscordUserID] >= 1
    /\ \A u \in Users :
          /\ u \in dLog.dmCreateFailed => dLog.dmSends[u] = 0
          /\ (dLog.dmCreates[u] >= 1 /\ u \notin dLog.dmCreateFailed) => dLog.dmSends[u] >= 1

\* A finished dispatch over two eligible channels and two users to notify: one
\* channel send failed and the other channel was sent to; one user's
\* UserChannelCreate failed, and the other user got the DM.
C7_Witness ==
    /\ dpc = "done"
    /\ \E p, q \in EligibleChannels :
          /\ dChanSeen[p].ChannelID \in dLog.chanFailed
          /\ dChanSeen[q].ChannelID \notin dLog.chanFailed
          /\ SendsTo(q) = 1
    /\ \E p, q \in UsersToNotify :
          /\ dSubSeen[p].DiscordUserID \in dLog.dmCreateFailed
          /\ dLog.dmSends[dSubSeen[p].DiscordUserID] = 0
          /\ dSubSeen[q].DiscordUserID \notin dLog.dmCreateFailed \cup dLog.dmSendFailed
          /\ dLog.dmSends[dSubSeen[q].DiscordUserID] = 1

\* C8: within one dispatch no target is tried twice: at most one
\* ChannelMessageSend per channel, at most one UserChannelCreate and at most
\* one DM send per user, failed or not.
C8_AtMostOneAttempt ==
    /\ \A c \in ChannelIDs : dLog.chanSends[c] <= 1
    /\ \A u \in Users : dLog.dmCreates[u] <= 1 /\ dLog.dmSends[u] <= 1

\* A finished dispatch in which every send failed: both channels, one user's
\* UserChannelCreate and the other user's DM send, each tried once.
C8_Witness ==
    /\ dpc = "done"
    /\ dLog.chanFailed = ChannelIDs
    /\ \A c \in ChannelIDs : dLog.chanSends[c] = 1
    /\ dLog.dmCreateFailed # {}
    /\ dLog.dmSendFailed # {}
    /\ dLog.dmCreateFailed \cup dLog.dmSendFailed = Users
    /\ \A u \in Users : dLog.dmCreates[u] = 1

\* ------------------------------------------------------------------ claims on the update cadence
\* C11: for an active market with 6 hours (72 ticks) or more left,
\* ShouldSendUpdate is true exactly when the time since the last update is at
\* least 30 minutes (6 ticks) for tier "high", 1 hour (12) for "medium", 3 hours
\* (36) for "low", and 1 hour for every other tier string, the empty one too.
C11_TierThresholds ==
    (/\ uProbe.called
     /\ uProbe.market.Status = "active"
     /\ uProbe.market.EndTime - uProbe.now >= 72)
        => uProbe.result =
              (uProbe.now - uProbe.lastUpdate >=
                  (IF uProbe.frequency = "high" THEN 6
                   ELSE IF uProbe.frequency = "low" THEN 36
                   ELSE 12))

\* 10 hours left, tier low, 2 hours since the last update: false.
C11_Witness ==
    /\ uProbe.called
    /\ uProbe.result = FALSE
    /\ uProbe.market.Status = "active"
    /\ uProbe.frequency = "low"
    /\ uProbe.market.EndTime - uProbe.now = 120
    /\ uProbe.now - uProbe.lastUpdate = 24

\* ------------------------------------------------------------------ the bot handling market-update events
\* The market of the update events: active, three hours left when the bot starts.
UpdateMarkets ==
    {[ID |-> "m1", Category |-> "politics", Creator |-> "alice",
      Status |-> "active", EndTime |-> StartTime + 36]}

\* The number of ticks the model lets pass.
MaxTicks == 3

\* Five minutes pass.
Tick ==
    /\ clock < StartTime + MaxTicks
    /\ clock' = clock + 1
    /\ UNCHANGED <<storeVars, discordSession, dispatchVars, dCommands, lastUpdateSend>>

\* The commands of this specification are handled between two dispatches.
UpdateCommand ==
    /\ dpc = "idle"
    /\ \/ \E c \in ChannelIDs, setting \in {"on", "off"} : handleChannelFeedNewMarkets(c, setting)
       \/ \E c \in ChannelIDs : handleChannelFeedFrequency(c, "high")
       \/ SubscribeToMarket("u1", "m1")

\* HandleMarketUpdate: the two passes, one after the other.
UpdateDispatch ==
    \/ \E market \in UpdateMarkets : sendToSubscribedChannels_Begin("market_update", market)
    \/ \E p \in dChanTodo, ok \in BOOLEAN : sendToSubscribedChannels_Iterate(p, ok)
    \/ sendToSubscribedUsers_Begin
    \/ \E p \in dSubTodo, outcome \in DMOutcomes : sendToSubscribedUsers_Iterate(p, outcome)
    \/ sendToSubscribedUsers_Return

UpdateNext ==
    \/ SetDiscordSession /\ UNCHANGED <<dCommands, clock, lastUpdateSend, lastOp, nProbe, uProbe, raceVars, hookVars>>
    \/ UpdateCommand /\ UNCHANGED <<dCommands, clock, lastUpdateSend, lastOp, nProbe, uProbe, raceVars, hookVars>>
    \/ UpdateDispatch /\ UNCHANGED <<dCommands, clock, lastOp, nProbe, uProbe, raceVars, hookVars>>
    \/ HandleEvent_Respond /\ dCommands' = 0 /\ UNCHANGED <<clock, lastOp, nProbe, uProbe, raceVars, hookVars>>
    \/ Tick /\ UNCHANGED <<lastOp, nProbe, uProbe, raceVars, hookVars>>

SpecUpdate == Init /\ [][UpdateNext]_vars

\* The cadence interval of a channel with tier `frequency` for `market` at time `now`.
CadenceInterval(market, frequency, now) ==
    IF market.EndTime - now < 72 THEN 3
    ELSE IF frequency = "high" THEN 6
    ELSE IF frequency = "low" THEN 36
    ELSE 12

\* C12: a market-update event is delivered to a channel only when
\* ShouldSendUpdate(market, the channel's tier, the channel's last-update time)
\* is true at the time of the send, and an update message sent to a channel
\* comes at least the channel's cadence interval after the last one sent to it.
C12_UpdatesGovernedByCadence ==
    dEvent = "market_update" =>
        \A p \in DOMAIN dChanSeen :
            /\ SendsTo(p) > 0 =>
                  ShouldSendUpdate(dMarket, dChanSeen[p].FrequencyMode,
                                   dChanSeen[p].LastUpdateTimestamp,
                                   dLog.chanSendAt[dChanSeen[p].ChannelID])
            /\ dLog.chanGap[dChanSeen[p].ChannelID] # NoGap =>
                  dLog.chanGap[dChanSeen[p].ChannelID] >=
                      CadenceInterval(dMarket, dChanSeen[p].FrequencyMode,
                                      dLog.chanSendAt[dChanSeen[p].ChannelID])

\* C13: once the dispatch of a market-update event is over, every channel the
\* update message was sent to without error has the time of that send as its
\* stored LastUpdateTimestamp.
C13_CallerRecordsLastUpdate ==
    (dEvent = "market_update" /\ dpc = "done") =>
        \A p \in DOMAIN dChanSeen :
            (SendsTo(p) > 0 /\ dChanSeen[p].ChannelID \notin dLog.chanFailed) =>
                chanObjs[p].LastUpdateTimestamp = dLog.chanSendAt[dChanSeen[p].ChannelID]

\* ------------------------------------------------------------------ SubscribeToMarket calls running concurrently
\* An access made by `who` while the mutex is in state m; `stored` tells whether
\* the map of the store, or a record a map entry points to, is accessed.
Access(op, stored, m, who) ==
    [op |-> op, stored |-> stored,
     shared |-> who \in m.readers, exclusive |-> m.writer = who]

\* `subscription, err := service.repo.GetSubscription(discordUserID)`: under the
\* read lock, the stored pointer, or a pointer to a record made for the call.
SubscribeToMarket_Get(g, u, m) ==
    /\ calls[g].pc \in {"idle", "returned"}
    /\ CanRLock(mu)
    /\ LET found == subscriptions[u] # NoPtr
           fresh == NewPtr(subObjs, u)
       IN /\ subObjs' = IF found THEN subObjs ELSE (fresh :> EmptySubscription(u)) @@ subObjs
          /\ calls' = [calls EXCEPT ![g] =
                          [pc |-> "check", user |-> u, market |-> m,
                           ptr |-> IF found THEN subscriptions[u] ELSE fresh, read |-> <<>>]]
    /\ lastAccess' = Access("read", TRUE, RLock(mu, g), g)
    /\ mu' = RUnlock(RLock(mu, g), g)
    /\ UNCHANGED <<subscriptions, channels, chanObjs, discordSession, dispatchVars,
                   dCommands, clock, lastUpdateSend, lastOp, nProbe, uProbe, hookVars>>

\* The membership loop over subscription.SubscribedMarkets.
SubscribeToMarket_Check(g) ==
    /\ calls[g].pc = "check"
    /\ calls' = [calls EXCEPT ![g].pc =
                    IF RangeFinds(subObjs[calls[g].ptr].SubscribedMarkets, calls[g].market)
                    THEN "returned" ELSE "append"]
    /\ lastAccess' = Access("read", subscriptions[calls[g].user] = calls[g].ptr, mu, g)
    /\ UNCHANGED <<storeVars, discordSession, dispatchVars,
                   dCommands, clock, lastUpdateSend, lastOp, nProbe, uProbe, hookVars>>

\* `append(subscription.SubscribedMarkets, marketID)`: the list is read ...
SubscribeToMarket_AppendRead(g) ==
    /\ calls[g].pc = "append"
    /\ calls' = [calls EXCEPT ![g].pc = "assign",
                              ![g].read = subObjs[calls[g].ptr].SubscribedMarkets]
    /\ lastAccess' = Access("read", subscriptions[calls[g].user] = calls[g].ptr, mu, g)
    /\ UNCHANGED <<storeVars, discordSession, dispatchVars,
                   dCommands, clock, lastUpdateSend, lastOp, nProbe, uProbe, hookVars>>

\* ... and `subscription.SubscribedMarkets = ...`: the longer list is written.
SubscribeToMarket_AppendWrite(g) ==
    /\ calls[g].pc = "assign"
    /\ subObjs' = [subObjs EXCEPT ![calls[g].ptr].SubscribedMarkets =
                                     Append(calls[g].read, calls[g].market)]
    /\ calls' = [calls EXCEPT ![g].pc = "save", ![g].read = <<>>]
    /\ lastAccess' = Access("write", subscriptions[calls[g].user] = calls[g].ptr, mu, g)
    /\ UNCHANGED <<subscriptions, channels, chanObjs, mu, discordSession, dispatchVars,
                   dCommands, clock, lastUpdateSend, lastOp, nProbe, uProbe, hookVars>>

\* `return service.repo.SaveSubscription(subscription)`: under the write lock,
\* the map entry of the user is set to the pointer.
SubscribeToMarket_Save(g) ==
    /\ calls[g].pc = "save"
    /\ CanLock(mu)
    /\ subscriptions' = [subscriptions EXCEPT ![calls[g].user] = calls[g].ptr]
    /\ calls' = [calls EXCEPT ![g].pc = "returned"]
    /\ lastAccess' = Access("write", TRUE, Lock(mu, g), g)
    /\ mu' = Unlock(Lock(mu, g), g)
    /\ UNCHANGED <<subObjs, channels, chanObjs, discordSession, dispatchVars,
                   dCommands, clock, lastUpdateSend, lastOp, nProbe, uProbe, hookVars>>

\* The users the concurrent calls are made for.
RaceUsers == {"u1"}

RaceNext ==
    \/ \E g \in Goroutines, u \in RaceUsers, m \in MarketIDs : SubscribeToMarket_Get(g, u, m)
    \/ \E g \in Goroutines : SubscribeToMarket_Check(g)
    \/ \E g \in Goroutines : SubscribeToMarket_AppendRead(g)
    \/ \E g \in Goroutines : SubscribeToMarket_AppendWrite(g)
    \/ \E g \in Goroutines : SubscribeToMarket_Save(g)

SpecRace == Init /\ [][RaceNext]_vars

\* C14: when two SubscribeToMarket calls for the same user with different market
\* ids have both returned, however their steps interleaved, the user's stored
\* market list contains both ids.
C14_ConcurrentSubscribesKeepBoth ==
    (/\ calls["g1"].pc = "returned"
     /\ calls["g2"].pc = "returned"
     /\ calls["g1"].user = calls["g2"].user
     /\ calls["g1"].market # calls["g2"].market)
        => {calls["g1"].market, calls["g2"].market}
               \subseteq Range(GetUserSubscriptions(calls["g1"].user).SubscribedMarkets)

\* C15: every write to the store's maps or to a record a map entry points to is
\* made by a holder of the write lock, and every read of them by a holder of
\* the read lock or the write lock.
C15_StoredDataAccessedUnderLock ==
    /\ (lastAccess.op = "write" /\ lastAccess.stored) => lastAccess.exclusive
    /\ (lastAccess.op = "read" /\ lastAccess.stored)
          => (lastAccess.shared \/ lastAccess.exclusive)

\* ------------------------------------------------------------------ claims on the store under concurrent handlers
\* C16: while a dispatch is in its channel loop or its user loop, where it
\* calls ChannelMessageSend and UserChannelCreate, the dispatching handler holds
\* neither the read lock nor the write lock of the repository, and the lock is
\* free for a store operation of another handler.
C16_NoLockAcrossDelivery ==
    dpc \in {"channels", "users"} =>
        /\ "dispatch" \notin mu.readers
        /\ mu.writer # "dispatch"
        /\ CanLock(mu)

\* A dispatch in its user loop that has sent to a channel and created a DM
\* channel, with a command handled since it began.
C16_Witness ==
    /\ dpc = "users"
    /\ dCommands >= 1
    /\ \E c \in ChannelIDs : dLog.chanSends[c] = 1
    /\ \E u \in Users : dLog.dmCreates[u] = 1
    /\ dSubTodo # {}

\* C17: the sequences GetAllChannelConfigs and GetAllSubscriptions returned to
\* a dispatch are snapshots: as long as the dispatch holds them, every record
\* in them has the contents it had when the call returned, whatever commands
\* have completed since.
C17_GetAllReturnsSnapshot ==
    /\ DOMAIN dChanRead = dChannels
    /\ DOMAIN dSubRead = dSubs
    /\ \A p \in dChannels : chanObjs[p] = dChanRead[p]
    /\ \A p \in dSubs : subObjs[p] = dSubRead[p]

\* ------------------------------------------------------------------ the channel admin commands, one at a time
\* The `frequency` option values the model issues.
FrequencyOptions == {"low", "high"}

\* What a command on channel c leaves in lastOp: whether the store had a config
\* of c when the command began, and the config GetChannelConfig(c) handed out.
ChannelOp(op, c) ==
    [op |-> op, channel |-> c, known |-> channels[c] # NoPtr,
     config |-> GetChannelConfig(c).rec]

AdminNext ==
    \/ \E c \in ChannelIDs, setting \in {"on", "off"} :
         /\ handleChannelFeedNewMarkets(c, setting)
         /\ lastOp' = ChannelOp("handleChannelFeedNewMarkets", c)
         /\ UNCHANGED <<dCommands, clock, lastUpdateSend, nProbe, uProbe, raceVars, hookVars>>
    \/ \E c \in ChannelIDs, categories \in CategoryOptions :
         /\ handleChannelFeedCategories(c, categories)
         /\ lastOp' = ChannelOp("handleChannelFeedCategories", c)
         /\ UNCHANGED <<dCommands, clock, lastUpdateSend, nProbe, uProbe, raceVars, hookVars>>
    \/ \E c \in ChannelIDs, frequency \in FrequencyOptions :
         /\ handleChannelFeedFrequency(c, frequency)
         /\ lastOp' = ChannelOp("handleChannelFeedFrequency", c)
         /\ UNCHANGED <<dCommands, clock, lastUpdateSend, nProbe, uProbe, raceVars, hookVars>>
    \/ \E c \in ChannelIDs :
         /\ handleChannelSettings(c)
         /\ lastOp' = ChannelOp("handleChannelSettings", c)
         /\ UNCHANGED <<dCommands, clock, lastUpdateSend, nProbe, uProbe, raceVars, hookVars>>
    \/ \E u \in Users, m \in MarketIDs :
         /\ SubscribeToMarket(u, m)
         /\ lastOp' = [op |-> "SubscribeToMarket", user |-> u, id |-> m, before |-> Before]
         /\ UNCHANGED <<dCommands, clock, lastUpdateSend, nProbe, uProbe, raceVars, hookVars>>
    \/ \E u \in Users :
         /\ handleListSubscriptions(u)
         /\ lastOp' = [op |-> "handleListSubscriptions", user |-> u, id |-> "",
                       before |-> Before, subscription |-> GetUserSubscriptions(u)]
         /\ UNCHANGED <<dCommands, clock, lastUpdateSend, nProbe, uProbe, raceVars, hookVars>>

SpecAdmin == Init /\ [][AdminNext]_vars

\* C18: GetChannelConfig for a channel id the store has no config of returns a
\* config with that channel id, FeedEnabled true, no allowed categories,
\* FrequencyMode "medium" and the zero LastUpdateTimestamp; GetSubscription for
\* a user id the store has no record of returns a record with that user id and
\* empty market and creator lists. The commands that read them get these values.
C18_DefaultsForUnknownIds ==
    /\ \A c \in ChannelIDs :
         channels[c] = NoPtr =>
             GetChannelConfig(c).rec =
                 [ChannelID |-> c, FeedEnabled |-> TRUE, AllowedCategories |-> <<>>,
                  FrequencyMode |-> "medium", LastUpdateTimestamp |-> 0]
    /\ \A u \in Users :
         subscriptions[u] = NoPtr =>
             GetSubscription(u).rec =
                 [DiscordUserID |-> u, SubscribedMarkets |-> <<>>, SubscribedCreators |-> <<>>]
    /\ (lastOp.op \in {"handleChannelFeedNewMarkets", "handleChannelFeedCategories",
                       "handleChannelFeedFrequency", "handleChannelSettings"}
        /\ ~lastOp.known)
          => lastOp.config =
                 [ChannelID |-> lastOp.channel, FeedEnabled |-> TRUE,
                  AllowedCategories |-> <<>>, FrequencyMode |-> "medium",
                  LastUpdateTimestamp |-> 0]
    /\ (lastOp.op = "handleListSubscriptions"
        /\ lastOp.before.subscriptions[lastOp.user] = NoPtr)
          => lastOp.subscription =
                 [DiscordUserID |-> lastOp.user, SubscribedMarkets |-> <<>>,
                  SubscribedCreators |-> <<>>]

\* /channel_settings in a channel with no stored config, while the other channel
\* has a stored config with the feed disabled and a user has a stored record.
C18_Witness ==
    /\ lastOp.op = "handleChannelSettings"
    /\ ~lastOp.known
    /\ lastOp.config.FeedEnabled
    /\ \E c \in ChannelIDs \ {lastOp.channel} :
         channels[c] # NoPtr /\ ~chanObjs[channels[c]].FeedEnabled
    /\ \E u \in Users : subscriptions[u] # NoPtr /\ \E v \in Users : subscriptions[v] = NoPtr

\* C19: after a command has read GetChannelConfig(c) for a channel c the store
\* had no config of, the store has a config of c, it is the default one, and it
\* is among the configs GetAllChannelConfigs returns.
C19_ConfigCreatedOnFirstRead ==
    (lastOp.op = "handleChannelSettings" /\ ~lastOp.known) =>
        /\ channels[lastOp.channel] # NoPtr
        /\ channels[lastOp.channel] \in GetAllChannelConfigs
        /\ chanObjs[channels[lastOp.channel]] = lastOp.config

\* C20: GetUserSubscriptions, UnsubscribeFromMarket and UnsubscribeFromCreator
\* for a user the store has no record of leave the result of
\* GetAllSubscriptions as it was: no record of that user is added.
C20_OnlySubscribeCreatesRecord ==
    (/\ lastOp.op \in {"handleListSubscriptions", "UnsubscribeFromMarket",
                       "UnsubscribeFromCreator"}
     /\ lastOp.before.subscriptions[lastOp.user] = NoPtr)
        => /\ subscriptions[lastOp.user] = NoPtr
           /\ GetAllSubscriptions =
                  {lastOp.before.subscriptions[u] :
                       u \in {x \in Users : lastOp.before.subscriptions[x] # NoPtr}}

\* ------------------------------------------------------------------ service: webhook registrations
\* What generateID can return: the hex of the random bytes, or the error of rand.Read.
GenerateIDOutcomes == {[id |-> suffix, err |-> FALSE] : suffix \in IDSuffixes}
                          \cup {[id |-> "", err |-> TRUE]}

\* The registration RegisterWebhook saves: id and creation time set, an empty
\* frequency replaced by "medium".
Registered(registration, gen) ==
    [registration EXCEPT !.ID = PrefixedID(gen.id), !.CreatedAt = clock,
                         !.Frequency = IF @ = "" THEN "medium" ELSE @]

\* What RegisterWebhook returns.
RegisterWebhook_Result(registration, gen) ==
    IF gen.err THEN [registration |-> NoReg, err |-> TRUE]
    ELSE [registration |-> Registered(registration, gen), err |-> FALSE]

RegisterWebhook_SavesOnError(registration, gen) ==
    SaveWebhookRegistration(Registered(registration, gen))

RegisterWebhook(registration, gen) ==
    IF gen.err THEN UNCHANGED webhooks
    ELSE SaveWebhookRegistration(Registered(registration, gen))

UnregisterWebhook_DropsAll(id) ==
    /\ CanLock(mu)
    /\ webhooks' = [k \in WebhookIDs |-> NoReg]

UnregisterWebhook(id) == DeleteWebhookRegistration(id)

ListWebhookRegistrations == GetAllWebhookRegistrations

ListWebhookRegistrationsByChannel(channelID) == GetWebhookRegistrationsByChannel(channelID)

\* ------------------------------------------------------------------ webhook handler: authentication
\* A header or secret is a sequence of pieces: the piece "Bearer " is seven
\* bytes long, every other piece is one byte.
PieceLen(piece) == IF piece = "Bearer " THEN 7 ELSE 1

RECURSIVE StrLen(_)
StrLen(s) == IF s = <<>> THEN 0 ELSE PieceLen(Head(s)) + StrLen(Tail(s))

\* bearer[:7] == "Bearer " and bearer[7:], for a string of more than 7 bytes.
HasBearerPrefix(s) == s # <<>> /\ Head(s) = "Bearer "

AuthOk_TokenOnly(apiKey, authorization, requiredAPIKey, requiredToken) ==
    LET bearer == IF StrLen(authorization) > 7 /\ HasBearerPrefix(authorization)
                  THEN Tail(authorization) ELSE authorization
    IN IF requiredToken # <<>> /\ bearer = requiredToken THEN TRUE
       ELSE requiredAPIKey = <<>> /\ requiredToken = <<>>

AuthOk(apiKey, authorization, requiredAPIKey, requiredToken) ==
    LET bearer == IF StrLen(authorization) > 7 /\ HasBearerPrefix(authorization)
                  THEN Tail(authorization) ELSE authorization
    IN IF requiredAPIKey # <<>> /\ apiKey = requiredAPIKey THEN TRUE
       ELSE IF requiredToken # <<>> /\ bearer = requiredToken THEN TRUE
       ELSE requiredAPIKey = <<>> /\ requiredToken = <<>>

\* ------------------------------------------------------------------ webhook handler: HTTP admin endpoints
\* os.Getenv("CORAL_API_KEY") and os.Getenv("CORAL_TOKEN") of the running bot.
CORAL_API_KEY == <<"k">>
CORAL_TOKEN == <<>>

\* A body json.Unmarshal rejects, and the body of a request sent without one.
BadJSON == [invalid |-> TRUE]
NoBody == [invalid |-> FALSE]

Authorized(r) == AuthOk(r.apiKey, r.authorization, CORAL_API_KEY, CORAL_TOKEN)

\* The response written, with what the handler did on the way.
Response(op, r, status, body) ==
    [op |-> op, request |-> r, status |-> status, body |-> body,
     before |-> [webhooks |-> webhooks, subscriptions |-> subscriptions, subObjs |-> subObjs,
                 channels |-> channels, chanObjs |-> chanObjs],
     session |-> discordSession, gen |-> [id |-> "", err |-> FALSE],
     outcome |-> "", chanSends |-> 0, dmCreates |-> 0, dmSends |-> 0]

\* POST /discord/webhooks/register
HandleRegisterWebhook(r, gen) ==
    LET op == "HandleRegisterWebhook"
        reg == [ID |-> "", ChannelID |-> r.body.ChannelID, WebhookURL |-> r.body.WebhookURL,
                Events |-> r.body.Events, Frequency |-> r.body.Frequency,
                AllowedCategories |-> r.body.AllowedCategories, CreatedAt |-> ZeroTime]
    IN
    /\ IF ~Authorized(r)
       THEN lastOp' = Response(op, r, 401, "Unauthorized") /\ UNCHANGED webhooks
       ELSE IF r.method # "POST"
       THEN lastOp' = Response(op, r, 405, "Method not allowed") /\ UNCHANGED webhooks
       ELSE IF r.body = BadJSON
       THEN lastOp' = Response(op, r, 400, "Invalid JSON") /\ UNCHANGED webhooks
       ELSE IF r.body.ChannelID = "" \/ r.body.WebhookURL = ""
       THEN lastOp' = Response(op, r, 400, "channel_id and webhook_url are required")
            /\ UNCHANGED webhooks
       ELSE /\ RegisterWebhook(reg, gen)
            /\ lastOp' = IF RegisterWebhook_Result(reg, gen).err
                         THEN [Response(op, r, 500, "Failed to register webhook")
                                  EXCEPT !.gen = gen]
                         ELSE [Response(op, r, 201, RegisterWebhook_Result(reg, gen).registration)
                                  EXCEPT !.gen = gen]
    /\ UNCHANGED <<storeVars, discordSession, dispatchVars>>

\* DELETE (or POST) /discord/webhooks/unregister
HandleUnregisterWebhook(r) ==
    LET op == "HandleUnregisterWebhook" IN
    /\ IF ~Authorized(r)
       THEN lastOp' = Response(op, r, 401, "Unauthorized") /\ UNCHANGED webhooks
       ELSE IF r.method \notin {"DELETE", "POST"}
       THEN lastOp' = Response(op, r, 405, "Method not allowed") /\ UNCHANGED webhooks
       ELSE IF r.body = BadJSON
       THEN lastOp' = Response(op, r, 400, "Invalid JSON") /\ UNCHANGED webhooks
       ELSE IF r.body.ID = ""
       THEN lastOp' = Response(op, r, 400, "id is required") /\ UNCHANGED webhooks
       ELSE /\ UnregisterWebhook(r.body.ID)
            /\ lastOp' = Response(op, r, 200, "ok")
    /\ UNCHANGED <<storeVars, discordSession, dispatchVars>>

\* DELETE /discord/webhooks/{id}: r.path is strings.Split(strings.Trim(path, "/"), "/").
HandleUnregisterWebhookByPath(r) ==
    LET op == "HandleUnregisterWebhookByPath"
        id == r.path[Len(r.path)]
    IN
    /\ IF ~Authorized(r)
       THEN lastOp' = Response(op, r, 401, "Unauthorized") /\ UNCHANGED webhooks
       ELSE IF r.method # "DELETE"
       THEN lastOp' = Response(op, r, 405, "Method not allowed") /\ UNCHANGED webhooks
       ELSE IF Len(r.path) < 3
       THEN lastOp' = Response(op, r, 400, "id required") /\ UNCHANGED webhooks
       ELSE IF id = ""
       THEN lastOp' = Response(op, r, 400, "id required") /\ UNCHANGED webhooks
       ELSE /\ UnregisterWebhook(id)
            /\ lastOp' = Response(op, r, 204, "")
    /\ UNCHANGED <<storeVars, discordSession, dispatchVars>>

\* GET /discord/webhooks
HandleListWebhooks(r) ==
    LET op == "HandleListWebhooks" IN
    /\ lastOp' = IF ~Authorized(r) THEN Response(op, r, 401, "Unauthorized")
                 ELSE IF r.method # "GET" THEN Response(op, r, 405, "Method not allowed")
                 ELSE Response(op, r, 200, ListWebhookRegistrations)
    /\ CanRLock(mu)
    /\ UNCHANGED <<storeVars, discordSession, dispatchVars, webhooks>>

\* The message HandleNotificationsDM builds for payload.Type: one of the
\* Create...Message texts, none of them empty, or "" for any other type.
NotificationMessage(type) ==
    CASE type = "market_update" -> "MARKET UPDATE"
      [] type = "trading_start" -> "TRADING STARTED"
      [] type = "trading_end" -> "TRADING CLOSED"
      [] type = "market_resolved" -> "MARKET RESOLVED"
      [] type = "market_buy" -> "MARKET BUY"
      [] OTHER -> ""

HandleNotificationsDM_NoSessionCheck(r, outcome) ==
    LET op == "HandleNotificationsDM"
        msg == NotificationMessage(r.body.Type)
    IN
    /\ lastOp' =
         IF ~Authorized(r) THEN Response(op, r, 401, "Unauthorized")
         ELSE IF r.method # "POST" THEN Response(op, r, 405, "Method not allowed")
         ELSE IF r.body = BadJSON THEN Response(op, r, 400, "Invalid JSON")
         ELSE IF msg = "" THEN Response(op, r, 400, "Unsupported type")
         ELSE IF outcome = "createFailed"
         THEN [Response(op, r, 500, "Failed to create DM channel")
                  EXCEPT !.outcome = outcome, !.dmCreates = 1]
         ELSE IF outcome = "sendFailed"
         THEN [Response(op, r, 500, "Failed to send DM")
                  EXCEPT !.outcome = outcome, !.dmCreates = 1, !.dmSends = 1]
         ELSE [Response(op, r, 202, "accepted")
                  EXCEPT !.outcome = outcome, !.dmCreates = 1, !.dmSends = 1]
    /\ UNCHANGED <<storeVars, discordSession, dispatchVars, webhooks>>

\* POST /discord/notifications/dm; outcome is what the Discord session answers.
HandleNotificationsDM(r, outcome) ==
    LET op == "HandleNotificationsDM"
        msg == NotificationMessage(r.body.Type)
    IN
    /\ lastOp' =
         IF ~Authorized(r) THEN Response(op, r, 401, "Unauthorized")
         ELSE IF r.method # "POST" THEN Response(op, r, 405, "Method not allowed")
         ELSE IF ~discordSession THEN Response(op, r, 503, "Discord not ready")
         ELSE IF r.body = BadJSON THEN Response(op, r, 400, "Invalid JSON")
         ELSE IF msg = "" THEN Response(op, r, 400, "Unsupported type")
         ELSE IF outcome = "createFailed"
         THEN [Response(op, r, 500, "Failed to create DM channel")
                  EXCEPT !.outcome = outcome, !.dmCreates = 1]
         ELSE IF outcome = "sendFailed"
         THEN [Response(op, r, 500, "Failed to send DM")
                  EXCEPT !.outcome = outcome, !.dmCreates = 1, !.dmSends = 1]
         ELSE [Response(op, r, 202, "accepted")
                  EXCEPT !.outcome = outcome, !.dmCreates = 1, !.dmSends = 1]
    /\ UNCHANGED <<storeVars, discordSession, dispatchVars, webhooks>>

\* ------------------------------------------------------------------ the HTTP admin endpoints, one request at a time
\* An id no registration has.
UnknownID == "wh_ff"

\* A request as the handlers see it; path is the URL path split at "/".
Request(method, apiKey, path, body) ==
    [method |-> method, apiKey |-> apiKey, authorization |-> <<>>, path |-> path, body |-> body]

\* For the endpoint at `path`: the requests with the configured key, method
\* `method` and a body of `bodies`, one with another method and one without key.
RequestsTo(path, method, other, bodies) ==
    {Request(method, CORAL_API_KEY, path, body) : body \in bodies}
        \cup {Request(other, CORAL_API_KEY, path, body) : body \in {CHOOSE b \in bodies : TRUE}}
        \cup {Request(method, <<>>, path, body) : body \in {CHOOSE b \in bodies : TRUE}}

RegisterBodies ==
    {BadJSON} \cup [ChannelID : {"ch1", "ch2", ""}, WebhookURL : {"https://hook", ""},
                    Events : {<<"new_market">>}, Frequency : {"", "high"},
                    AllowedCategories : {<<>>}]

RegisterRequests ==
    RequestsTo(<<"discord", "webhooks", "register">>, "POST", "GET", RegisterBodies)

UnregisterRequests ==
    RequestsTo(<<"discord", "webhooks", "unregister">>, "DELETE", "GET",
               {BadJSON} \cup [ID : {"wh_0a", "wh_0b", "", UnknownID}])
        \cup {Request("POST", CORAL_API_KEY, <<"discord", "webhooks", "unregister">>,
                      [ID |-> "wh_0c"])}

UnregisterByPathRequests ==
    UNION {RequestsTo(path, "DELETE", "GET", {NoBody}) :
              path \in {<<"discord", "webhooks">>, <<"discord", "webhooks", "wh_0a">>,
                        <<"discord", "webhooks", "wh_0c">>, <<"discord", "webhooks", UnknownID>>}}

ListRequests == RequestsTo(<<"discord", "webhooks">>, "GET", "POST", {NoBody})

NotificationRequests ==
    RequestsTo(<<"discord", "notifications", "dm">>, "POST", "GET",
               {BadJSON} \cup [DiscordUserID : {"u1"},
                               Type : {"market_update", "market_buy", "new_market", ""}])

HttpNext ==
    \/ \E r \in RegisterRequests, gen \in GenerateIDOutcomes :
         /\ HandleRegisterWebhook(r, gen)
         /\ UNCHANGED <<dCommands, clock, lastUpdateSend, nProbe, uProbe, raceVars, aProbe, mProbe>>
    \/ \E r \in UnregisterRequests :
         /\ HandleUnregisterWebhook(r)
         /\ UNCHANGED <<dCommands, clock, lastUpdateSend, nProbe, uProbe, raceVars, aProbe, mProbe>>
    \/ \E r \in UnregisterByPathRequests :
         /\ HandleUnregisterWebhookByPath(r)
         /\ UNCHANGED <<dCommands, clock, lastUpdateSend, nProbe, uProbe, raceVars, aProbe, mProbe>>
    \/ \E r \in ListRequests :
         /\ HandleListWebhooks(r)
         /\ UNCHANGED <<dCommands, clock, lastUpdateSend, nProbe, uProbe, raceVars, aProbe, mProbe>>
    \/ \E r \in NotificationRequests, outcome \in DMOutcomes :
         /\ HandleNotificationsDM(r, outcome)
         /\ UNCHANGED <<dCommands, clock, lastUpdateSend, nProbe, uProbe, raceVars, aProbe, mProbe>>
    \/ /\ SetDiscordSession
       /\ lastOp' = [op |-> "SetDiscordSession"]
       /\ UNCHANGED <<dCommands, clock, lastUpdateSend, nProbe, uProbe, raceVars, hookVars>>
    \/ /\ SubscribeToMarket("u1", "m1")
       /\ lastOp' = [op |-> "SubscribeToMarket", user |-> "u1", id |-> "m1", before |-> Before]
       /\ UNCHANGED <<dCommands, clock, lastUpdateSend, nProbe, uProbe, raceVars, hookVars>>
    \/ /\ handleChannelFeedNewMarkets("ch1", "off")
       /\ lastOp' = ChannelOp("handleChannelFeedNewMarkets", "ch1")
       /\ UNCHANGED <<dCommands, clock, lastUpdateSend, nProbe, uProbe, raceVars, hookVars>>

SpecHttp == Init /\ [][HttpNext]_vars

\* ------------------------------------------------------------------ claims on the webhook registrations
\* The ids of the registrations listed in the store `ws` (a value of webhooks).
ListedIDs(ws) == {k \in WebhookIDs : ws[k] # NoReg}

\* The last request was answered by an unregister endpoint with success; the id it named.
Unregistered(op) ==
    /\ op.op \in {"HandleUnregisterWebhook", "HandleUnregisterWebhookByPath"}
    /\ op.status \in {200, 204}

UnregisteredID(op) ==
    IF op.op = "HandleUnregisterWebhook" THEN op.request.body.ID
    ELSE op.request.path[Len(op.request.path)]

C23_ListedUntilUnregistered ==
    [][/\ \A k \in WebhookIDs :
            (webhooks[k] # NoReg /\ webhooks'[k] = NoReg)
                => (Unregistered(lastOp') /\ UnregisteredID(lastOp') = k)
       /\ Unregistered(lastOp') =>
            /\ \A reg \in ListWebhookRegistrations' : reg.ID # UnregisteredID(lastOp')
            /\ \A k \in WebhookIDs \ {UnregisteredID(lastOp')} : webhooks'[k] = webhooks[k]
            /\ <<subscriptions, subObjs, channels, chanObjs>>'
                  = <<subscriptions, subObjs, channels, chanObjs>>]_vars

\* An unregister request removed wh_0a while another registration, a subscriber
\* record and a channel config were stored.
C23_Witness ==
    /\ Unregistered(lastOp)
    /\ UnregisteredID(lastOp) = "wh_0a"
    /\ lastOp.before.webhooks["wh_0a"] # NoReg
    /\ webhooks["wh_0a"] = NoReg
    /\ webhooks["wh_0b"] # NoReg
    /\ subscriptions["u1"] # NoPtr
    /\ channels["ch1"] # NoPtr

\* C24: when generateID fails, the register endpoint answers 500 and the
\* registrations are as before the call; no stored registration has the empty
\* id or the bare prefix as its id.
C24_FailedGenerationStoresNothing ==
    /\ (lastOp.op = "HandleRegisterWebhook" /\ lastOp.gen.err) =>
          /\ lastOp.status = 500
          /\ webhooks = lastOp.before.webhooks
    /\ \A k \in ListedIDs(webhooks) : k \notin {"", "wh_"} /\ webhooks[k].ID = k

\* generateID failed while a registration was stored.
C24_Witness ==
    /\ lastOp.op = "HandleRegisterWebhook"
    /\ lastOp.gen.err
    /\ lastOp.status = 500
    /\ ListedIDs(webhooks) # {}

\* C25: GetWebhookRegistration for an id that is not stored returns no
\* registration and no error; an unregister request for such an id succeeds
\* (204 from the path endpoint) and leaves the store as it was;
\* ListWebhookRegistrationsByChannel for a channel no registration names is empty.
C25_MissingKeysDoNotFail ==
    /\ \A id \in WebhookIDs \cup {UnknownID} :
         id \notin ListedIDs(webhooks) =>
             GetWebhookRegistration(id) = [registration |-> NoReg, err |-> FALSE]
    /\ \A c \in ChannelIDs :
         (\A k \in ListedIDs(webhooks) : webhooks[k].ChannelID # c) =>
             ListWebhookRegistrationsByChannel(c) = {}
    /\ (/\ lastOp.op \in {"HandleUnregisterWebhook", "HandleUnregisterWebhookByPath"}
        /\ Authorized(lastOp.request)
        /\ lastOp.request.method = "DELETE"
        /\ lastOp.request.body # BadJSON
        /\ Len(lastOp.request.path) >= 3
        /\ UnregisteredID(lastOp) # ""
        /\ UnregisteredID(lastOp) \notin ListedIDs(lastOp.before.webhooks))
          => /\ lastOp.status = IF lastOp.op = "HandleUnregisterWebhook" THEN 200 ELSE 204
             /\ webhooks = lastOp.before.webhooks
             /\ subscriptions = lastOp.before.subscriptions
             /\ channels = lastOp.before.channels

\* DELETE /discord/webhooks/wh_ff answered 204 while another registration was stored.
C25_Witness ==
    /\ lastOp.op = "HandleUnregisterWebhookByPath"
    /\ lastOp.status = 204
    /\ UnregisteredID(lastOp) = UnknownID
    /\ ListedIDs(webhooks) # {}

\* ------------------------------------------------------------------ claims on the notification endpoint
\* C29: HandleNotificationsDM answers an authorized POST with 503 and calls
\* Discord not at all while no session is set, whatever the body; with a
\* session, an unsupported type gets 400 and no DM attempt, a failed DM-channel
\* creation or a failed send gets 500, and 202 is answered only after the
\* message was sent without error.
C29_NotificationStatuses ==
    (/\ lastOp.op = "HandleNotificationsDM"
     /\ Authorized(lastOp.request)
     /\ lastOp.request.method = "POST")
        => /\ ~lastOp.session =>
                 lastOp.status = 503 /\ lastOp.dmCreates = 0 /\ lastOp.dmSends = 0
           /\ (/\ lastOp.session
               /\ lastOp.request.body # BadJSON
               /\ lastOp.request.body.Type \notin
                      {"market_update", "trading_start", "trading_end",
                       "market_resolved", "market_buy"})
                 => lastOp.status = 400 /\ lastOp.dmCreates = 0 /\ lastOp.dmSends = 0
           /\ (lastOp.outcome = "createFailed") => (lastOp.status = 500 /\ lastOp.dmSends = 0)
           /\ (lastOp.outcome = "sendFailed") => lastOp.status = 500
           /\ lastOp.status = 202 =>
                 /\ lastOp.session
                 /\ lastOp.outcome = "ok"
                 /\ lastOp.dmCreates = 1
                 /\ lastOp.dmSends = 1

\* No session, a body that is not JSON: 503.
C29_Witness ==
    /\ lastOp.op = "HandleNotificationsDM"
    /\ Authorized(lastOp.request)
    /\ lastOp.request.method = "POST"
    /\ ~lastOp.session
    /\ lastOp.request.body = BadJSON
    /\ lastOp.status = 503

\* ------------------------------------------------------------------ webhook handler: HTTP subscription and channel endpoints
\* The request passes the auth check, the method check and json.Unmarshal.
Accepted(r, method) == Authorized(r) /\ r.method = method /\ r.body # BadJSON

\* POST /discord/subscribe/market
HandleSubscribeMarket(r) ==
    IF Accepted(r, "POST") THEN SubscribeToMarket(r.body.DiscordUserID, r.body.MarketID)
    ELSE UNCHANGED <<storeVars, discordSession, dispatchVars>>

\* POST /discord/unsubscribe/market
HandleUnsubscribeMarket(r) ==
    IF Accepted(r, "POST") THEN UnsubscribeFromMarket(r.body.DiscordUserID, r.body.MarketID)
    ELSE UNCHANGED <<storeVars, discordSession, dispatchVars>>

\* POST /discord/subscribe/creator
HandleSubscribeCreator(r) ==
    IF Accepted(r, "POST") THEN SubscribeToCreator(r.body.DiscordUserID, r.body.CreatorID)
    ELSE UNCHANGED <<storeVars, discordSession, dispatchVars>>

\* POST /discord/unsubscribe/creator
HandleUnsubscribeCreator(r) ==
    IF Accepted(r, "POST") THEN UnsubscribeFromCreator(r.body.DiscordUserID, r.body.CreatorID)
    ELSE UNCHANGED <<storeVars, discordSession, dispatchVars>>

\* POST /discord/channel/feed/new_markets
HandleChannelFeedNewMarkets(r) ==
    IF Accepted(r, "POST")
    THEN /\ UpdateChannelConfig([GetChannelConfig(r.body.ChannelID) EXCEPT
                                    !.rec.ChannelID = r.body.ChannelID,
                                    !.rec.FeedEnabled = r.body.Enabled,
                                    !.rec.LastUpdateTimestamp = clock])
         /\ UNCHANGED <<subscriptions, subObjs, mu, discordSession, dispatchVars>>
    ELSE UNCHANGED <<storeVars, discordSession, dispatchVars>>

\* POST /discord/channel/feed/categories
HandleChannelFeedCategories(r) ==
    IF Accepted(r, "POST")
    THEN /\ UpdateChannelConfig([GetChannelConfig(r.body.ChannelID) EXCEPT
                                    !.rec.ChannelID = r.body.ChannelID,
                                    !.rec.AllowedCategories = r.body.AllowedCategories,
                                    !.rec.LastUpdateTimestamp = clock])
         /\ UNCHANGED <<subscriptions, subObjs, mu, discordSession, dispatchVars>>
    ELSE UNCHANGED <<storeVars, discordSession, dispatchVars>>

\* POST /discord/channel/feed/frequency
HandleChannelFeedFrequency(r) ==
    IF Accepted(r, "POST")
    THEN /\ UpdateChannelConfig([GetChannelConfig(r.body.ChannelID) EXCEPT
                                    !.rec.ChannelID = r.body.ChannelID,
                                    !.rec.FrequencyMode = r.body.Frequency,
                                    !.rec.LastUpdateTimestamp = clock])
         /\ UNCHANGED <<subscriptions, subObjs, mu, discordSession, dispatchVars>>
    ELSE UNCHANGED <<storeVars, discordSession, dispatchVars>>

\* ------------------------------------------------------------------ every flow that writes subscriptions or channel configs
SlashCommand ==
    \/ \E u \in Users : SubscribeToMarket(u, "m1")
    \/ \E u \in Users : UnsubscribeFromMarket(u, "m1")
    \/ \E u \in Users : SubscribeToCreator(u, "alice")
    \/ \E u \in Users : UnsubscribeFromCreator(u, "alice")
    \/ \E c \in ChannelIDs, setting \in {"on", "off"} : handleChannelFeedNewMarkets(c, setting)
    \/ \E c \in ChannelIDs, o \in CategoryOptions : handleChannelFeedCategories(c, o)
    \/ \E c \in ChannelIDs : handleChannelFeedFrequency(c, "high")

HttpCommand ==
    \/ \E r \in RequestsTo(<<"discord", "subscribe", "market">>, "POST", "GET",
                           {BadJSON} \cup [DiscordUserID : Users, MarketID : {"m1"}]) :
          HandleSubscribeMarket(r)
    \/ \E r \in RequestsTo(<<"discord", "unsubscribe", "market">>, "POST", "GET",
                           {BadJSON} \cup [DiscordUserID : Users, MarketID : {"m1"}]) :
          HandleUnsubscribeMarket(r)
    \/ \E r \in RequestsTo(<<"discord", "subscribe", "creator">>, "POST", "GET",
                           {BadJSON} \cup [DiscordUserID : Users, CreatorID : {"alice"}]) :
          HandleSubscribeCreator(r)
    \/ \E r \in RequestsTo(<<"discord", "unsubscribe", "creator">>, "POST", "GET",
                           {BadJSON} \cup [DiscordUserID : Users, CreatorID : {"alice"}]) :
          HandleUnsubscribeCreator(r)
    \/ \E r \in RequestsTo(<<"discord", "channel", "feed", "new_markets">>, "POST", "GET",
                           {BadJSON} \cup [ChannelID : ChannelIDs, Enabled : BOOLEAN]) :
          HandleChannelFeedNewMarkets(r)
    \/ \E r \in RequestsTo(<<"discord", "channel", "feed", "categories">>, "POST", "GET",
                           {BadJSON} \cup [ChannelID : ChannelIDs,
                                           AllowedCategories : {<<>>, <<"sports", "politics">>}]) :
          HandleChannelFeedCategories(r)
    \/ \E r \in RequestsTo(<<"discord", "channel", "feed", "frequency">>, "POST", "GET",
                           {BadJSON} \cup [ChannelID : ChannelIDs, Frequency : {"high"}]) :
          HandleChannelFeedFrequency(r)

\* A new-market event for market m1, every Discord call succeeding.
StoreDispatch ==
    \/ \E market \in {m \in EventMarkets : m.ID = "m1"} :
          sendToSubscribedChannels_Begin("new_market", market)
    \/ \E p \in dChanTodo : sendToSubscribedChannels_Iterate(p, TRUE)
    \/ sendToSubscribedUsers_Begin
    \/ \E p \in dSubTodo : sendToSubscribedUsers_Iterate(p, "ok")
    \/ sendToSubscribedUsers_Return

StoreNext ==
    \/ SetDiscordSession /\ UNCHANGED <<dCommands, clock, lastUpdateSend, lastOp, nProbe, uProbe, raceVars, hookVars>>
    \/ dpc = "idle" /\ SlashCommand /\ UNCHANGED <<dCommands, clock, lastUpdateSend, lastOp, nProbe, uProbe, raceVars, hookVars>>
    \/ dpc = "idle" /\ HttpCommand /\ UNCHANGED <<dCommands, clock, lastUpdateSend, lastOp, nProbe, uProbe, raceVars, hookVars>>
    \/ StoreDispatch /\ UNCHANGED <<dCommands, clock, lastOp, nProbe, uProbe, raceVars, hookVars>>
    \/ HandleEvent_Respond /\ dCommands' = 0 /\ UNCHANGED <<clock, lastOp, nProbe, uProbe, raceVars, hookVars>>

SpecStore == Init /\ [][StoreNext]_vars

\* The user ids GetAllSubscriptions has a record of, and the channel ids
\* GetAllChannelConfigs has a config of.
SubscriberIDs == {subObjs[p].DiscordUserID : p \in GetAllSubscriptions}
ConfiguredChannelIDs == {chanObjs[p].ChannelID : p \in GetAllChannelConfigs}

\* C21: no step of a webhook, HTTP admin or slash-command flow removes a
\* subscriber record or a channel config: a user id in GetAllSubscriptions and
\* a channel id in GetAllChannelConfigs are there after every step, also after
\* the unsubscribe that empties the record.
C21_RecordsAreNeverRemoved ==
    [][/\ SubscriberIDs \subseteq SubscriberIDs'
       /\ ConfiguredChannelIDs \subseteq ConfiguredChannelIDs'
       /\ \A u \in Users : subscriptions[u] # NoPtr => subscriptions'[u] # NoPtr
       /\ \A c \in ChannelIDs : channels[c] # NoPtr => channels'[c] # NoPtr]_vars

\* u1's record is stored with both lists empty beside u2's record with a
\* market and a creator, and a channel config is stored.
C21_Witness ==
    /\ "u1" \in SubscriberIDs
    /\ GetUserSubscriptions("u1").SubscribedMarkets = <<>>
    /\ GetUserSubscriptions("u1").SubscribedCreators = <<>>
    /\ GetUserSubscriptions("u2").SubscribedMarkets = <<"m1">>
    /\ GetUserSubscriptions("u2").SubscribedCreators = <<"alice">>
    /\ "ch1" \in ConfiguredChannelIDs

\* ------------------------------------------------------------------ the event endpoints, from request to response
\* f[x] summed over the x in S.
RECURSIVE Total(_, _)
Total(f, S) ==
    IF S = {} THEN 0
    ELSE LET x == CHOOSE y \in S : TRUE IN f[x] + Total(f, S \ {x})

\* POST /webhooks/new_market up to the first fan-out pass: the checks of the
\* request, CreateMarketAnnouncement and the start of sendToSubscribedChannels.
\* The method is not looked at.
HandleNewMarket_Begin(r) ==
    LET op == "HandleNewMarket" IN
    IF ~Authorized(r)
    THEN dpc = "idle" /\ lastOp' = Response(op, r, 401, "Unauthorized")
         /\ UNCHANGED <<storeVars, discordSession, dispatchVars, lastUpdateSend>>
    ELSE IF r.body = BadJSON
    THEN dpc = "idle" /\ lastOp' = Response(op, r, 400, "Invalid JSON")
         /\ UNCHANGED <<storeVars, discordSession, dispatchVars, lastUpdateSend>>
    ELSE IF r.body.EventType # "new_market"
    THEN dpc = "idle" /\ lastOp' = Response(op, r, 400, "Invalid event type")
         /\ UNCHANGED <<storeVars, discordSession, dispatchVars, lastUpdateSend>>
    ELSE /\ sendToSubscribedChannels_Begin("new_market", r.body.Market)
         /\ lastOp' = Response(op, r, 0, "")

\* POST /discord/events/new-market up to the first fan-out pass; the market is
\* built from the payload with Status "active".
HandleEventNewMarket_Begin(r) ==
    LET op == "HandleEventNewMarket" IN
    IF ~Authorized(r)
    THEN dpc = "idle" /\ lastOp' = Response(op, r, 401, "Unauthorized")
         /\ UNCHANGED <<storeVars, discordSession, dispatchVars, lastUpdateSend>>
    ELSE IF r.method # "POST"
    THEN dpc = "idle" /\ lastOp' = Response(op, r, 405, "Method not allowed")
         /\ UNCHANGED <<storeVars, discordSession, dispatchVars, lastUpdateSend>>
    ELSE IF r.body = BadJSON
    THEN dpc = "idle" /\ lastOp' = Response(op, r, 400, "Invalid JSON")
         /\ UNCHANGED <<storeVars, discordSession, dispatchVars, lastUpdateSend>>
    ELSE /\ sendToSubscribedChannels_Begin("new_market",
                                           [r.body.Market EXCEPT !.Status = "active"])
         /\ lastOp' = Response(op, r, 0, "")

\* Both passes have returned: the handler writes 200 {"ok": true}
\* (/webhooks/new_market) or 202 {"accepted": true} (/discord/events/new-market).
HandleNewMarket_Respond ==
    /\ lastOp.op \in {"HandleNewMarket", "HandleEventNewMarket"}
    /\ HandleEvent_Respond
    /\ lastOp' = [lastOp EXCEPT
                     !.status = IF lastOp.op = "HandleNewMarket" THEN 200 ELSE 202,
                     !.body = IF lastOp.op = "HandleNewMarket" THEN "ok" ELSE "accepted",
                     !.chanSends = Total(dLog.chanSends, ChannelIDs),
                     !.dmCreates = Total(dLog.dmCreates, Users),
                     !.dmSends = Total(dLog.dmSends, Users)]

NewMarketBodies ==
    {BadJSON} \cup [EventType : {"new_market", "market_update"},
                    Market : {m \in EventMarkets : m.ID = "m1"}]

EventNext ==
    \/ \E r \in RequestsTo(<<"webhooks", "new_market">>, "POST", "GET", NewMarketBodies) :
         /\ HandleNewMarket_Begin(r)
         /\ UNCHANGED <<dCommands, clock, nProbe, uProbe, raceVars, hookVars>>
    \/ \E r \in RequestsTo(<<"discord", "events", "new-market">>, "POST", "GET", NewMarketBodies) :
         /\ HandleEventNewMarket_Begin(r)
         /\ UNCHANGED <<dCommands, clock, nProbe, uProbe, raceVars, hookVars>>
    \/ /\ \/ \E p \in dChanTodo, ok \in BOOLEAN : sendToSubscribedChannels_Iterate(p, ok)
          \/ sendToSubscribedUsers_Begin
          \/ \E p \in dSubTodo, outcome \in DMOutcomes : sendToSubscribedUsers_Iterate(p, outcome)
          \/ sendToSubscribedUsers_Return
       /\ UNCHANGED <<dCommands, clock, lastOp, nProbe, uProbe, raceVars, hookVars>>
    \/ /\ HandleNewMarket_Respond
       /\ UNCHANGED <<dCommands, clock, lastUpdateSend, nProbe, uProbe, raceVars, hookVars>>
    \/ /\ dpc = "idle"
       /\ SetDiscordSession
       /\ lastOp' = [op |-> "SetDiscordSession"]
       /\ UNCHANGED <<dCommands, clock, lastUpdateSend, nProbe, uProbe, raceVars, hookVars>>
    \/ \E u \in Users :
         /\ dpc = "idle"
         /\ SubscribeToMarket(u, "m1")
         /\ lastOp' = [op |-> "SubscribeToMarket", user |-> u, id |-> "m1", before |-> Before]
         /\ UNCHANGED <<dCommands, clock, lastUpdateSend, nProbe, uProbe, raceVars, hookVars>>
    \/ \E c \in ChannelIDs, setting \in {"on", "off"} :
         /\ dpc = "idle"
         /\ handleChannelFeedNewMarkets(c, setting)
         /\ lastOp' = ChannelOp("handleChannelFeedNewMarkets", c)
         /\ UNCHANGED <<dCommands, clock, lastUpdateSend, nProbe, uProbe, raceVars, hookVars>>

SpecEvents == Init /\ [][EventNext]_vars

\* The request passes the checks of its handler.
WellFormedEvent(op) ==
    /\ op.op \in {"HandleNewMarket", "HandleEventNewMarket"}
    /\ Authorized(op.request)
    /\ op.request.body # BadJSON
    /\ op.op = "HandleNewMarket" => op.request.body.EventType = "new_market"
    /\ op.op = "HandleEventNewMarket" => op.request.method = "POST"

\* C28: with no Discord session set, an authorized, well-formed event request
\* is answered 200 {"ok": true} by the /webhooks/ handler and 202 by the
\* /discord/events/ handler; its dispatch considers no channel and no user,
\* makes no call on Discord, and leaves the store as it was.
C28_NoSessionStillSucceeds ==
    (WellFormedEvent(lastOp) /\ ~discordSession) =>
        /\ dLog = NoLog /\ dChannels = {} /\ dSubs = {}
        /\ lastOp.chanSends = 0 /\ lastOp.dmCreates = 0 /\ lastOp.dmSends = 0
        /\ subscriptions = lastOp.before.subscriptions
        /\ subObjs = lastOp.before.subObjs
        /\ channels = lastOp.before.channels
        /\ chanObjs = lastOp.before.chanObjs
        /\ webhooks = lastOp.before.webhooks
        /\ dpc # "idle" => lastOp.status = 0
        /\ dpc = "idle" =>
              /\ lastOp.op = "HandleNewMarket" => (lastOp.status = 200 /\ lastOp.body = "ok")
              /\ lastOp.op = "HandleEventNewMarket" => lastOp.status = 202

\* /webhooks/new_market answered 200 with no session, while an enabled channel
\* config and a subscriber of the market were stored.
C28_Witness ==
    /\ WellFormedEvent(lastOp)
    /\ ~discordSession
    /\ lastOp.op = "HandleNewMarket"
    /\ lastOp.status = 200
    /\ dpc = "idle"
    /\ channels["ch1"] # NoPtr
    /\ chanObjs[channels["ch1"]].FeedEnabled
    /\ RangeFinds(GetUserSubscriptions("u1").SubscribedMarkets, "m1")

\* ------------------------------------------------------------------ AuthOk on its own
\* The longest Authorization header, in pieces.
MaxHeaderPieces == 2

AuthProbes ==
    [apiKey : {<<>>, <<"k">>, <<"x">>},
     authorization : SeqsUpTo({"Bearer ", "t", "x"}, MaxHeaderPieces),
     requiredAPIKey : {<<>>, <<"k">>},
     requiredToken : {<<>>, <<"t">>, <<"Bearer ">>, <<"Bearer ", "t">>},
     called : {FALSE},
     result : {FALSE}]

CallAuthOk ==
    /\ ~aProbe.called
    /\ aProbe' = [aProbe EXCEPT !.called = TRUE, !.result =
                     AuthOk(aProbe.apiKey, aProbe.authorization,
                            aProbe.requiredAPIKey, aProbe.requiredToken)]
    /\ UNCHANGED <<storeVars, discordSession, dispatchVars, dCommands, clock, lastUpdateSend,
                   lastOp, nProbe, uProbe, raceVars, webhooks, mProbe>>

InitAuth ==
    /\ InitProgram
    /\ nProbe = IdleProbe
    /\ uProbe = IdleProbe
    /\ aProbe \in AuthProbes
    /\ mProbe = IdleProbe

SpecAuth == InitAuth /\ [][CallAuthOk]_vars

\* The header without a leading "Bearer ".
WithoutBearer(s) == IF HasBearerPrefix(s) THEN Tail(s) ELSE s

\* The header without a leading "Bearer " that something follows.
WithoutBearerBeforeToken(s) == IF HasBearerPrefix(s) /\ Len(s) > 1 THEN Tail(s) ELSE s

\* Whether the request of the probe is let in, the bearer token being `token`.
LetIn(p, token) ==
    \/ p.requiredAPIKey = <<>> /\ p.requiredToken = <<>>
    \/ p.requiredAPIKey # <<>> /\ p.apiKey = p.requiredAPIKey
    \/ p.requiredToken # <<>> /\ token = p.requiredToken

\* C27: AuthOk is true exactly when no secret is configured, or the configured
\* API key equals the X-API-Key header, or the configured token equals the
\* Authorization header without a leading "Bearer "; with a secret configured,
\* a request with neither the right key nor the right token is rejected.
C27_AuthOkIff ==
    aProbe.called =>
        /\ aProbe.result = LetIn(aProbe, WithoutBearer(aProbe.authorization))
        /\ (/\ aProbe.requiredAPIKey # <<>> \/ aProbe.requiredToken # <<>>
            /\ aProbe.requiredAPIKey = <<>> \/ aProbe.apiKey # aProbe.requiredAPIKey
            /\ aProbe.requiredToken = <<>>
                  \/ WithoutBearer(aProbe.authorization) # aProbe.requiredToken)
              => ~aProbe.result

\* C27 as amended: the same, the leading "Bearer " being removed only from a
\* header that is longer than it.
C27_AuthOkIffLongerThanPrefix ==
    aProbe.called =>
        /\ aProbe.result = LetIn(aProbe, WithoutBearerBeforeToken(aProbe.authorization))
        /\ (/\ aProbe.requiredAPIKey # <<>> \/ aProbe.requiredToken # <<>>
            /\ aProbe.requiredAPIKey = <<>> \/ aProbe.apiKey # aProbe.requiredAPIKey
            /\ aProbe.requiredToken = <<>>
                  \/ WithoutBearerBeforeToken(aProbe.authorization) # aProbe.requiredToken)
              => ~aProbe.result

\* Both secrets configured, a wrong key, "Bearer t" for the token "t": let in.
C27_Witness ==
    /\ aProbe.called
    /\ aProbe.result
    /\ aProbe.requiredAPIKey = <<"k">>
    /\ aProbe.apiKey = <<"x">>
    /\ aProbe.requiredToken = <<"t">>
    /\ aProbe.authorization = <<"Bearer ", "t">>

\* ------------------------------------------------------------------ service: market messages
\* A []float64: nil, or its elements. Percentages are kept in hundredths of a
\* percent (3333 is 33.33).
NilSlice == [nil |-> TRUE, elems |-> <<>>]
Slice(elems) == [nil |-> FALSE, elems |-> elems]

\* len(market.Percentages)
GoLen(slice) == IF slice.nil THEN 0 ELSE Len(slice.elems)

\* What "%.1f" prints, in tenths of a percent: the nearest tenth (the values
\* the model uses are not halfway between two tenths).
FormatOneDecimal(hundredths) == (hundredths + 5) \div 10

\* "- %s (%.1f%%)\n"
OutcomeLine(outcome, percentage) == [outcome |-> outcome, shown |-> FormatOneDecimal(percentage)]

\* The loop over market.Outcomes; the Go index of Outcomes[i] is i - 1.
OutcomeLines(market) ==
    [i \in 1..Len(market.Outcomes) |->
        OutcomeLine(market.Outcomes[i],
                    IF i - 1 < GoLen(market.Percentages)
                    THEN market.Percentages.elems[i] ELSE 0)]

CreateMarketAnnouncement_OneLinePerPercentage(market) ==
    [heading |-> "NEW MARKET ALERT", title |-> market.Title,
     lines |-> [i \in 1..GoLen(market.Percentages) |->
                   OutcomeLine(IF i <= Len(market.Outcomes) THEN market.Outcomes[i] ELSE "",
                               market.Percentages.elems[i])],
     link |-> market.Link]

CreateMarketAnnouncement(market) ==
    [heading |-> "NEW MARKET ALERT", title |-> market.Title,
     lines |-> OutcomeLines(market), link |-> market.Link]

CreateMarketUpdateMessage(market) ==
    [heading |-> "MARKET UPDATE", title |-> market.Title,
     lines |-> OutcomeLines(market), link |-> market.Link]

\* ------------------------------------------------------------------ the message builders on their own
\* The longest outcome list and the longest percentage list.
MaxOutcomes == 3
MaxPercentages == 3

MessageProbes ==
    [builder : {"CreateMarketAnnouncement", "CreateMarketUpdateMessage"},
     market : [Title : {"Will it rain?"}, Link : {"https://coral.markets/market/1"},
               Outcomes : SeqsUpTo({"Yes", "No"}, MaxOutcomes),
               Percentages : {NilSlice} \cup
                             {Slice(e) : e \in SeqsUpTo({0, 3333, 6667}, MaxPercentages)}],
     called : {FALSE},
     result : {<<>>}]

CallCreateMessage ==
    /\ ~mProbe.called
    /\ mProbe' = [mProbe EXCEPT !.called = TRUE, !.result =
                     IF mProbe.builder = "CreateMarketAnnouncement"
                     THEN CreateMarketAnnouncement(mProbe.market)
                     ELSE CreateMarketUpdateMessage(mProbe.market)]
    /\ UNCHANGED <<storeVars, discordSession, dispatchVars, dCommands, clock, lastUpdateSend,
                   lastOp, nProbe, uProbe, raceVars, webhooks, aProbe>>

InitMessage ==
    /\ InitProgram
    /\ nProbe = IdleProbe
    /\ uProbe = IdleProbe
    /\ aProbe = IdleProbe
    /\ mProbe \in MessageProbes

SpecMessage == InitMessage /\ [][CallCreateMessage]_vars

\* C30: the announcement and the update message have one line per outcome, in
\* the order of the outcomes; the line of the outcome at Go index i shows
\* percentages[i] to one decimal when i < len(percentages) and 0.0 otherwise;
\* percentages past the last outcome are not shown; a message is built for
\* every pair of list lengths, a nil percentage list too.
C30_OneLinePerOutcome ==
    mProbe.called =>
        LET outcomes == mProbe.market.Outcomes
            given == IF mProbe.market.Percentages.nil THEN <<>>
                     ELSE mProbe.market.Percentages.elems
            lines == mProbe.result.lines
        IN /\ DOMAIN lines = 1..Len(outcomes)
           /\ \A i \in 1..Len(outcomes) :
                 /\ lines[i].outcome = outcomes[i]
                 /\ lines[i].shown = IF i <= Len(given) THEN (given[i] + 5) \div 10 ELSE 0
           /\ mProbe.result.heading =
                 IF mProbe.builder = "CreateMarketAnnouncement"
                 THEN "NEW MARKET ALERT" ELSE "MARKET UPDATE"

\* Three outcomes and one percentage: 66.7, 0.0, 0.0.
C30_Witness ==
    /\ mProbe.called
    /\ mProbe.builder = "CreateMarketAnnouncement"
    /\ mProbe.market.Outcomes = <<"Yes", "No", "Yes">>
    /\ mProbe.market.Percentages = Slice(<<6667>>)
    /\ mProbe.result.lines[1].shown = 667
    /\ mProbe.result.lines[2].shown = 0
    /\ mProbe.result.lines[3].shown = 0

\* ------------------------------------------------------------------ registrations beside the fan-out dispatch
\* The registrations the model makes: for either channel, for the event the
\* model dispatches or for another one, with a category list that leaves the
\* dispatched market out.
Registrations ==
    [ID : {""}, ChannelID : ChannelIDs, WebhookURL : {"https://hook"},
     Events : {<<"new_market">>, <<"market_update">>},
     Frequency : {"low"}, AllowedCategories : {<<"sports">>}, CreatedAt : {ZeroTime}]

\* The commands that set up channel configs and subscriptions.
SetupCommand ==
    \/ \E u \in Users : SubscribeToMarket(u, "m1")
    \/ \E c \in ChannelIDs, setting \in {"on", "off"} : handleChannelFeedNewMarkets(c, setting)
    \/ handleChannelFeedCategories("ch1", "sports, politics")

RegistrationCall ==
    /\ \/ \E registration \in Registrations, gen \in GenerateIDOutcomes :
             RegisterWebhook(registration, gen)
       \/ \E id \in WebhookIDs : UnregisterWebhook(id)
    /\ UNCHANGED <<storeVars, discordSession, dispatchVars>>

\* Registrations are made and removed at any time, a dispatch under way or
\* not; the other commands run between dispatches.
RegistrationsNext ==
    \/ dpc = "idle" /\ SetDiscordSession /\ UNCHANGED <<dCommands, clock, lastUpdateSend, lastOp, nProbe, uProbe, raceVars, hookVars>>
    \/ dpc = "idle" /\ SetupCommand /\ UNCHANGED <<dCommands, clock, lastUpdateSend, lastOp, nProbe, uProbe, raceVars, hookVars>>
    \/ RegistrationCall /\ UNCHANGED <<dCommands, clock, lastUpdateSend, lastOp, nProbe, uProbe, raceVars, aProbe, mProbe>>
    \/ StoreDispatch /\ UNCHANGED <<dCommands, clock, lastOp, nProbe, uProbe, raceVars, hookVars>>
    \/ HandleEvent_Respond /\ dCommands' = 0 /\ UNCHANGED <<clock, lastOp, nProbe, uProbe, raceVars, hookVars>>

SpecRegistrations == Init /\ [][RegistrationsNext]_vars

\* The channels and users a dispatch of the market tries, from the session,
\* the channel configs and the subscriptions alone.
ChannelsToTry(market) ==
    {c \in ChannelIDs :
        /\ discordSession
        /\ channels[c] # NoPtr
        /\ chanObjs[channels[c]].FeedEnabled
        /\ \/ chanObjs[channels[c]].AllowedCategories = <<>>
           \/ market.Category \in Range(chanObjs[channels[c]].AllowedCategories)}

UsersToTry(market) ==
    {u \in Users :
        /\ discordSession
        /\ subscriptions[u] # NoPtr
        /\ \/ market.ID \in Range(subObjs[subscriptions[u]].SubscribedMarkets)
           \/ market.Creator \in Range(subObjs[subscriptions[u]].SubscribedCreators)}

\* C26: webhook registrations have no effect on dispatch.  The delivery
\* attempts of a finished dispatch are a function of the event, the session,
\* the channel configs and the subscriptions: one ChannelMessageSend for each
\* enabled channel whose category list lets the market through, one
\* UserChannelCreate for each subscriber of the market or of its creator, and
\* nothing else, whatever registrations are stored, were added or were removed
\* meanwhile.  Two stores that agree on configs and subscriptions give the
\* same attempts, since the registrations do not enter.
C26_RegistrationsDoNotSteerDispatch ==
    dpc = "done" =>
        /\ \A c \in ChannelIDs :
              dLog.chanSends[c] = IF c \in ChannelsToTry(dMarket) THEN 1 ELSE 0
        /\ \A u \in Users :
              dLog.dmCreates[u] = IF u \in UsersToTry(dMarket) THEN 1 ELSE 0

\* A finished dispatch of the "politics" market with two registrations
\* stored: one for ch1, for another event and with a category list without
\* "politics", and ch1 was sent to; one for ch2, for this event, and ch2, whose
\* feed is off, was not.
C26_Witness ==
    /\ dpc = "done"
    /\ dEvent = "new_market"
    /\ \E a, b \in GetAllWebhookRegistrations :
          /\ a.ChannelID = "ch1"
          /\ a.Events = <<"market_update">>
          /\ dMarket.Category \notin Range(a.AllowedCategories)
          /\ b.ChannelID = "ch2"
          /\ b.Events = <<"new_market">>
    /\ dLog.chanSends["ch1"] = 1
    /\ dLog.chanSends["ch2"] = 0
    /\ channels["ch2"] # NoPtr

\* ------------------------------------------------------------------ two calls of ShouldSendUpdate side by side
\* The times since the last update next to a threshold, and the times left
\* next to the closing-soon limit.
ElapsedNearThresholds ==
    {e \in 0..MaxElapsed :
        \/ e \in {0, MaxElapsed}
        \/ \E t \in {FifteenMinutes, ThirtyMinutes, OneHour, ThreeHours} : e \in {t - 1, t}}

RemainingNearLimit == {0 - MaxOverdue, 0, SixHours - 1, SixHours, MaxRemaining}

PairArgs ==
    [market : [Status : {"active"}, EndTime : {ProbeNow + r : r \in RemainingNearLimit}],
     frequency : {"high", "medium", "low", "daily"},
     lastUpdate : {ZeroTime} \cup {ProbeNow - e : e \in ElapsedNearThresholds},
     now : {ProbeNow},
     called : {FALSE},
     result : {FALSE}]

CallShouldSendUpdate_First ==
    /\ ~uProbe.first.called
    /\ uProbe' = [uProbe EXCEPT !.first.called = TRUE, !.first.result =
                     ShouldSendUpdate(uProbe.first.market, uProbe.first.frequency,
                                      uProbe.first.lastUpdate, uProbe.first.now)]
    /\ UNCHANGED <<storeVars, discordSession, dispatchVars, dCommands, clock, lastUpdateSend,
                   lastOp, nProbe, raceVars, hookVars>>

CallShouldSendUpdate_Second ==
    /\ ~uProbe.second.called
    /\ uProbe' = [uProbe EXCEPT !.second.called = TRUE, !.second.result =
                     ShouldSendUpdate(uProbe.second.market, uProbe.second.frequency,
                                      uProbe.second.lastUpdate, uProbe.second.now)]
    /\ UNCHANGED <<storeVars, discordSession, dispatchVars, dCommands, clock, lastUpdateSend,
                   lastOp, nProbe, raceVars, hookVars>>

InitPair ==
    /\ InitProgram
    /\ nProbe = IdleProbe
    /\ uProbe \in [first : PairArgs, second : PairArgs]
    /\ aProbe = IdleProbe
    /\ mProbe = IdleProbe

PairNext ==
    \/ CallShouldSendUpdate_First
    \/ CallShouldSendUpdate_Second

SpecPair == InitPair /\ [][PairNext]_vars

\* The two calls compared: time since the last update, time left, and the
\* arguments they share.
Elapsed(call) == call.now - call.lastUpdate
Remaining(call) == call.market.EndTime - call.now
SameBut(a, b, field) ==
    /\ field = "frequency" \/ a.frequency = b.frequency
    /\ field = "lastUpdate" \/ a.lastUpdate = b.lastUpdate
    /\ field = "EndTime" \/ a.market.EndTime = b.market.EndTime

\* C36: ShouldSendUpdate is monotone for an active market.  Of two calls that
\* differ in the tier only, true for low implies true for medium and true for
\* medium implies true for high; of two calls that differ in the end time
\* only, true with 6 hours (72 ticks) or more left implies true with less than
\* 6 hours left; of two calls that differ in the last update only, true
\* implies true for the longer time since the last update; and a call with
\* the zero-value last update gives true.
C36_Monotone ==
    LET a == uProbe.first
        b == uProbe.second
    IN (a.called /\ b.called) =>
          /\ (SameBut(a, b, "frequency") /\ a.frequency = "low" /\ b.frequency = "medium")
                => (a.result => b.result)
          /\ (SameBut(a, b, "frequency") /\ a.frequency = "medium" /\ b.frequency = "high")
                => (a.result => b.result)
          /\ (SameBut(a, b, "EndTime") /\ Remaining(a) >= 72 /\ Remaining(b) < 72)
                => (a.result => b.result)
          /\ (SameBut(a, b, "lastUpdate") /\ Elapsed(a) <= Elapsed(b))
                => (a.result => b.result)
          /\ a.lastUpdate = 0 => a.result
          /\ b.lastUpdate = 0 => b.result

\* Tier medium, one hour since the last update: true with 6 hours left, and
\* true with 5 minutes less.
C36_Witness ==
    /\ uProbe.first.called
    /\ uProbe.second.called
    /\ SameBut(uProbe.first, uProbe.second, "EndTime")
    /\ uProbe.first.frequency = "medium"
    /\ Elapsed(uProbe.first) = 12
    /\ Remaining(uProbe.first) = 72
    /\ Remaining(uProbe.second) = 71
    /\ uProbe.first.result
    /\ uProbe.second.result

\* C37: when two SubscribeToMarket calls for the same user and the same market
\* id have both returned, however their steps interleaved, the user's stored
\* market list contains the id exactly once.
C37_ConcurrentSameMarketOnce ==
    (/\ calls["g1"].pc = "returned"
     /\ calls["g2"].pc = "returned"
     /\ calls["g1"].user = calls["g2"].user
     /\ calls["g1"].market = calls["g2"].market)
        => LET list == GetUserSubscriptions(calls["g1"].user).SubscribedMarkets
           IN Cardinality({i \in DOMAIN list : list[i] = calls["g1"].market}) = 1

\* ------------------------------------------------------------------ the repository lock, step by step
\* The goroutines that use the repository at the same time.
Workers == Goroutines \cup {"g3"}

\* The repository operations each flow calls, in order; "deliver" is a call of
\* the Discord session, made between them.
Flows ==
    [SubscribeToMarket |-> <<"GetSubscription", "SaveSubscription">>,
     handleListSubscriptions |-> <<"GetSubscription">>,
     handleChannelFeedNewMarkets |-> <<"GetChannelConfig", "SaveChannelConfig">>,
     RegisterWebhook |-> <<"SaveWebhookRegistration">>,
     HandleNewMarket |-> <<"GetAllChannelConfigs", "deliver", "GetAllSubscriptions", "deliver">>]

\* The operations that take mutex.Lock(); the others take mutex.RLock().
Writes ==
    {"SaveSubscription", "DeleteSubscription", "SaveChannelConfig",
     "SaveWebhookRegistration", "DeleteWebhookRegistration"}

NoFlow == [pc |-> "idle", flow |-> "", todo |-> <<>>]

\* Where a goroutine goes on with the operations it has left.
Continue(flow, todo) ==
    [pc |-> IF todo = <<>> THEN "returned" ELSE IF Head(todo) = "deliver" THEN "deliver" ELSE "call",
     flow |-> flow, todo |-> todo]

OtherThanLock ==
    <<subscriptions, subObjs, channels, chanObjs, discordSession, dispatchVars, dCommands,
      clock, lastUpdateSend, lastOp, nProbe, uProbe, lastAccess, hookVars>>

StartFlow(g, flow) ==
    /\ calls[g].pc \in {"idle", "returned"}
    /\ calls' = [calls EXCEPT ![g] = Continue(flow, Flows[flow])]
    /\ UNCHANGED mu
    /\ UNCHANGED OtherThanLock

\* mutex.RLock(): the read lock is taken when no writer has announced itself;
\* otherwise the goroutine blocks until that writer unlocks.
Mutex_RLock(g) ==
    /\ calls[g].pc = "call"
    /\ Head(calls[g].todo) \notin Writes
    /\ IF CanRLock(mu)
       THEN /\ mu' = RLock(mu, g)
            /\ calls' = [calls EXCEPT ![g].pc = "held"]
       ELSE /\ mu' = mu
            /\ calls' = [calls EXCEPT ![g].pc = "blocked"]
    /\ UNCHANGED OtherThanLock

\* mutex.Lock(): writers take their turn one at a time; the writer announces
\* itself, which keeps new readers out, and waits for the readers that hold
\* the lock to leave.
Mutex_Lock(g) ==
    /\ calls[g].pc = "call"
    /\ Head(calls[g].todo) \in Writes
    /\ mu.writer = NoHolder
    /\ mu' = Lock(mu, g)
    /\ calls' = [calls EXCEPT ![g].pc = IF mu.readers = {} THEN "held" ELSE "drain"]
    /\ UNCHANGED OtherThanLock

\* The last reader has left: mutex.Lock() returns.
Mutex_Lock_Return(g) ==
    /\ calls[g].pc = "drain"
    /\ mu.readers = {}
    /\ calls' = [calls EXCEPT ![g].pc = "held"]
    /\ UNCHANGED mu
    /\ UNCHANGED OtherThanLock

\* The deferred mutex.RUnlock(): the operation returns.
Mutex_RUnlock(g) ==
    /\ calls[g].pc = "held"
    /\ Head(calls[g].todo) \notin Writes
    /\ mu' = RUnlock(mu, g)
    /\ calls' = [calls EXCEPT ![g] = Continue(calls[g].flow, Tail(calls[g].todo))]
    /\ UNCHANGED OtherThanLock

Mutex_Unlock_LeavesReadersBlocked(g) ==
    /\ calls[g].pc = "held"
    /\ Head(calls[g].todo) \in Writes
    /\ mu' = Unlock(mu, g)
    /\ calls' = [calls EXCEPT ![g] = Continue(calls[g].flow, Tail(calls[g].todo))]
    /\ UNCHANGED OtherThanLock

\* The deferred mutex.Unlock(): the readers that blocked meanwhile get the
\* read lock, and the operation returns.
Mutex_Unlock(g) ==
    /\ calls[g].pc = "held"
    /\ Head(calls[g].todo) \in Writes
    /\ LET blocked == {h \in Workers : calls[h].pc = "blocked"} IN
          /\ mu' = [readers |-> blocked, writer |-> NoHolder]
          /\ calls' = [h \in Workers |->
                          IF h = g THEN Continue(calls[g].flow, Tail(calls[g].todo))
                          ELSE IF h \in blocked THEN [calls[h] EXCEPT !.pc = "held"]
                          ELSE calls[h]]
    /\ UNCHANGED OtherThanLock

\* The deliveries of one pass return.
Deliver(g) ==
    /\ calls[g].pc = "deliver"
    /\ calls' = [calls EXCEPT ![g] = Continue(calls[g].flow, Tail(calls[g].todo))]
    /\ UNCHANGED mu
    /\ UNCHANGED OtherThanLock

InitLocks ==
    /\ subscriptions = [u \in Users |-> NoPtr]
    /\ subObjs = EmptyHeap
    /\ channels = [c \in ChannelIDs |-> NoPtr]
    /\ chanObjs = EmptyHeap
    /\ mu = Unlocked
    /\ discordSession = TRUE
    /\ dpc = "idle"
    /\ dEvent = ""
    /\ dMarket = NoMarket
    /\ dChannels = {}
    /\ dChanTodo = {}
    /\ dChanRead = EmptyHeap
    /\ dChanSeen = EmptyHeap
    /\ dSubs = {}
    /\ dSubTodo = {}
    /\ dSubRead = EmptyHeap
    /\ dSubSeen = EmptyHeap
    /\ dLog = NoLog
    /\ dCommands = 0
    /\ clock = StartTime
    /\ lastUpdateSend = [c \in ChannelIDs |-> ZeroTime]
    /\ lastOp = [op |-> "none"]
    /\ calls = [g \in Workers |-> NoFlow]
    /\ lastAccess = NoAccess
    /\ webhooks = [id \in WebhookIDs |-> NoReg]
    /\ nProbe = IdleProbe
    /\ uProbe = IdleProbe
    /\ aProbe = IdleProbe
    /\ mProbe = IdleProbe

\* A step of a flow that has started.
Proceed(g) ==
    \/ Mutex_RLock(g)
    \/ Mutex_Lock(g)
    \/ Mutex_Lock_Return(g)
    \/ Mutex_RUnlock(g)
    \/ Mutex_Unlock(g)
    \/ Deliver(g)

LocksNext ==
    \/ \E g \in Workers, flow \in DOMAIN Flows : StartFlow(g, flow)
    \/ \E g \in Workers : Mutex_RLock(g)
    \/ \E g \in Workers : Mutex_Lock(g)
    \/ \E g \in Workers : Mutex_Lock_Return(g)
    \/ \E g \in Workers : Mutex_RUnlock(g)
    \/ \E g \in Workers : Mutex_Unlock(g)
    \/ \E g \in Workers : Deliver(g)

\* Every call that can go on does go on; a writer that finds the writers' turn
\* free again and again gets it (sync.Mutex hands over to the longest waiter).
LocksFairness ==
    \A g \in Workers :
        /\ WF_vars(Mutex_RLock(g))
        /\ SF_vars(Mutex_Lock(g))
        /\ WF_vars(Mutex_Lock_Return(g))
        /\ WF_vars(Mutex_RUnlock(g))
        /\ WF_vars(Mutex_Unlock(g))
        /\ WF_vars(Deliver(g))

SpecLocks == InitLocks /\ [][LocksNext]_vars /\ LocksFairness

Started(g) == calls[g].pc \notin {"idle", "returned"}

\* Exactly the goroutines inside a repository operation hold the lock, each
\* in the mode of its operation; a goroutine that is calling or waiting holds
\* nothing yet.
HeldAsTaken ==
    /\ mu.readers = {g \in Workers : calls[g].pc = "held" /\ Head(calls[g].todo) \notin Writes}
    /\ \A g \in Workers :
          mu.writer = g <=> (/\ calls[g].pc \in {"held", "drain"}
                             /\ Head(calls[g].todo) \in Writes)
    /\ mu.writer # NoHolder =>
          \A g \in mu.readers : calls[mu.writer].pc = "drain"

\* C31: no operation blocks indefinitely.  Every repository operation takes
\* the lock once, in its mode, holds nothing while it calls or waits for the
\* lock and nothing once it has returned or while deliveries are made; when a
\* flow is under way some flow under way can take a step (no deadlock), and
\* every flow that has started returns.
C31_NoOperationBlocksForever ==
    /\ [](HeldAsTaken /\ ((\E g \in Workers : Started(g)) => \E g \in Workers : ENABLED Proceed(g)))
    /\ \A g \in Workers : Started(g) ~> (calls[g].pc = "returned")

\* A dispatch holds the read lock, a writer has announced itself and waits for
\* it to leave, and a reader that came after the writer is blocked.
C31_Witness ==
    /\ \E g \in Workers : calls[g].pc = "held" /\ calls[g].flow = "HandleNewMarket"
    /\ \E g \in Workers : calls[g].pc = "drain" /\ calls[g].flow = "SubscribeToMarket"
    /\ \E g \in Workers : calls[g].pc = "blocked" /\ calls[g].flow = "handleListSubscriptions"

\* ------------------------------------------------------------------ the other event endpoints, from request to response
\* The /webhooks/ handlers and the event_type each one asks for.
WebhookEndpoints ==
    [HandleNewMarket |-> "new_market", HandleMarketUpdate |-> "market_update",
     HandleTradingStarted |-> "trading_started", HandleTradingEnded |-> "trading_ended",
     HandleMarketResolved |-> "market_resolved"]

\* The /discord/events/ handlers that build the market from a flat payload,
\* and the kind of message each one sends.
EventEndpoints ==
    [HandleEventMarketUpdate |-> "market_update", HandleEventTradingStart |-> "trading_started",
     HandleEventTradingEnd |-> "trading_ended", HandleEventMarketResolved |-> "market_resolved",
     HandleEventMarketBuy |-> "market_buy"]

HandleWebhook_Begin_AnyEventType(handler, r) ==
    IF ~Authorized(r)
    THEN dpc = "idle" /\ lastOp' = Response(handler, r, 401, "Unauthorized")
         /\ UNCHANGED <<storeVars, discordSession, dispatchVars, lastUpdateSend>>
    ELSE IF r.body = BadJSON
    THEN dpc = "idle" /\ lastOp' = Response(handler, r, 400, "Invalid JSON")
         /\ UNCHANGED <<storeVars, discordSession, dispatchVars, lastUpdateSend>>
    ELSE /\ sendToSubscribedChannels_Begin(WebhookEndpoints[handler], r.body.Market)
         /\ lastOp' = Response(handler, r, 0, "")

\* A /webhooks/ handler up to the first fan-out pass: the checks of the
\* request, the message and the start of sendToSubscribedChannels.  The
\* method is not looked at.
HandleWebhook_Begin(handler, r) ==
    IF ~Authorized(r)
    THEN dpc = "idle" /\ lastOp' = Response(handler, r, 401, "Unauthorized")
         /\ UNCHANGED <<storeVars, discordSession, dispatchVars, lastUpdateSend>>
    ELSE IF r.body = BadJSON
    THEN dpc = "idle" /\ lastOp' = Response(handler, r, 400, "Invalid JSON")
         /\ UNCHANGED <<storeVars, discordSession, dispatchVars, lastUpdateSend>>
    ELSE IF r.body.EventType # WebhookEndpoints[handler]
    THEN dpc = "idle" /\ lastOp' = Response(handler, r, 400, "Invalid event type")
         /\ UNCHANGED <<storeVars, discordSession, dispatchVars, lastUpdateSend>>
    ELSE /\ sendToSubscribedChannels_Begin(WebhookEndpoints[handler], r.body.Market)
         /\ lastOp' = Response(handler, r, 0, "")

NormalizedMarket_WithCreator(handler, payload) ==
    [ID |-> payload.MarketID, Category |-> "", Creator |-> payload.Creator,
     Status |-> IF handler = "HandleEventMarketUpdate" THEN "active" ELSE "",
     EndTime |-> IF handler = "HandleEventMarketUpdate" THEN payload.EndTime ELSE ZeroTime]

\* The models.Market the handler builds: the payload has no category and no
\* creator, so both fields keep the zero value.
NormalizedMarket(handler, payload) ==
    [ID |-> payload.MarketID, Category |-> "", Creator |-> "",
     Status |-> IF handler = "HandleEventMarketUpdate" THEN "active" ELSE "",
     EndTime |-> IF handler = "HandleEventMarketUpdate" THEN payload.EndTime ELSE ZeroTime]

\* A /discord/events/ handler up to the first fan-out pass.
HandleEvent_Begin(handler, r) ==
    IF ~Authorized(r)
    THEN dpc = "idle" /\ lastOp' = Response(handler, r, 401, "Unauthorized")
         /\ UNCHANGED <<storeVars, discordSession, dispatchVars, lastUpdateSend>>
    ELSE IF r.method # "POST"
    THEN dpc = "idle" /\ lastOp' = Response(handler, r, 405, "Method not allowed")
         /\ UNCHANGED <<storeVars, discordSession, dispatchVars, lastUpdateSend>>
    ELSE IF r.body = BadJSON
    THEN dpc = "idle" /\ lastOp' = Response(handler, r, 400, "Invalid JSON")
         /\ UNCHANGED <<storeVars, discordSession, dispatchVars, lastUpdateSend>>
    ELSE /\ sendToSubscribedChannels_Begin(EventEndpoints[handler],
                                           NormalizedMarket(handler, r.body))
         /\ lastOp' = Response(handler, r, 0, "")

\* Both passes have returned: 200 {"ok": true} from a /webhooks/ handler, 202
\* {"accepted": true} from a /discord/events/ handler.
HandleIngress_Respond ==
    /\ lastOp.op \in DOMAIN WebhookEndpoints \cup DOMAIN EventEndpoints
    /\ HandleEvent_Respond
    /\ lastOp' = [lastOp EXCEPT
                     !.status = IF lastOp.op \in DOMAIN WebhookEndpoints THEN 200 ELSE 202,
                     !.body = IF lastOp.op \in DOMAIN WebhookEndpoints THEN "ok" ELSE "accepted",
                     !.chanSends = Total(dLog.chanSends, ChannelIDs),
                     !.dmCreates = Total(dLog.dmCreates, Users),
                     !.dmSends = Total(dLog.dmSends, Users)]

\* The payloads: for /webhooks/, market m1 (category politics, creator alice)
\* under each event_type; for /discord/events/, its id, with the creator in a
\* field no handler reads.
WebhookBodies ==
    {BadJSON} \cup [EventType : {WebhookEndpoints[h] : h \in DOMAIN WebhookEndpoints},
                    Market : {m \in EventMarkets : m.ID = "m1"}]

EventBodies ==
    {BadJSON, [MarketID |-> "m1", Creator |-> "alice", EndTime |-> StartTime + 120]}

IngressSetup ==
    \/ SetDiscordSession
    \/ SubscribeToMarket("u1", "m1")
    \/ \E c \in {"alice", ""} : SubscribeToCreator("u2", c)
    \/ \E setting \in {"on", "off"} : handleChannelFeedNewMarkets("ch2", setting)
    \/ handleChannelFeedCategories("ch1", "")
    \/ handleChannelFeedCategories("ch2", "sports, politics")

IngressNext ==
    \/ \E handler \in DOMAIN WebhookEndpoints,
          r \in RequestsTo(<<"webhooks">>, "POST", "GET", WebhookBodies) :
         /\ HandleWebhook_Begin(handler, r)
         /\ UNCHANGED <<dCommands, clock, nProbe, uProbe, raceVars, hookVars>>
    \/ \E handler \in DOMAIN EventEndpoints,
          r \in RequestsTo(<<"discord", "events">>, "POST", "GET", EventBodies) :
         /\ HandleEvent_Begin(handler, r)
         /\ UNCHANGED <<dCommands, clock, nProbe, uProbe, raceVars, hookVars>>
    \/ /\ \/ \E p \in dChanTodo : sendToSubscribedChannels_Iterate(p, TRUE)
          \/ sendToSubscribedUsers_Begin
          \/ \E p \in dSubTodo : sendToSubscribedUsers_Iterate(p, "ok")
          \/ sendToSubscribedUsers_Return
       /\ UNCHANGED <<dCommands, clock, lastOp, nProbe, uProbe, raceVars, hookVars>>
    \/ /\ HandleIngress_Respond
       /\ UNCHANGED <<dCommands, clock, lastUpdateSend, nProbe, uProbe, raceVars, hookVars>>
    \/ /\ dpc = "idle"
       /\ IngressSetup
       /\ lastOp' = [op |-> "setup"]
       /\ UNCHANGED <<dCommands, clock, lastUpdateSend, nProbe, uProbe, raceVars, hookVars>>

SpecIngress == Init /\ [][IngressNext]_vars

\* The store is as the handler found it.
StoreAsBefore(op) ==
    /\ subscriptions = op.before.subscriptions
    /\ subObjs = op.before.subObjs
    /\ channels = op.before.channels
    /\ chanObjs = op.before.chanObjs
    /\ webhooks = op.before.webhooks

ConfigOf(c) == GetChannelConfig(c).rec

\* C34: an admin action on a channel, by slash command or by a
\* /discord/channel/feed/ endpoint, changes the attribute it is about and
\* nothing else: in every step at most one channel's config changes, at most
\* one of FeedEnabled, AllowedCategories and FrequencyMode changes in it, and
\* its LastUpdateTimestamp stays as it was (the defaults count as the previous
\* values of a channel that was unknown).
C34_AdminChangesOnlyItsAttribute ==
    [][/\ \A c \in ChannelIDs :
             /\ ConfigOf(c)'.ChannelID = ConfigOf(c).ChannelID
             /\ ConfigOf(c)'.LastUpdateTimestamp = ConfigOf(c).LastUpdateTimestamp
             /\ Cardinality({a \in {"FeedEnabled", "AllowedCategories", "FrequencyMode"} :
                                ConfigOf(c)'[a] # ConfigOf(c)[a]}) <= 1
        /\ Cardinality({d \in ChannelIDs : ConfigOf(d)' # ConfigOf(d)}) <= 1]_vars

\* ------------------------------------------------------------------ every endpoint behind AuthOk
StoreResponse_MethodFirst(op, r, method) ==
    Response(op, r,
             IF r.method # method THEN 405
             ELSE IF ~Authorized(r) THEN 401
             ELSE IF r.body = BadJSON THEN 400
             ELSE 200,
             "")

\* What a subscription or channel-feed endpoint answers: AuthOk, then the
\* method, then the body; SubscribeToMarket and the like return no error.
StoreResponse(op, r, method) ==
    Response(op, r,
             IF ~Authorized(r) THEN 401
             ELSE IF r.method # method THEN 405
             ELSE IF r.body = BadJSON THEN 400
             ELSE 200,
             "")

\* GET /discord/subscriptions/{id} and GET /discord/channel/settings/{id}:
\* `parts` is the path split at "/", `least` the number of parts asked for.
HandleGetByPath(op, r, least) ==
    /\ lastOp' = IF ~Authorized(r) THEN Response(op, r, 401, "Unauthorized")
                 ELSE IF r.method # "GET" THEN Response(op, r, 405, "Method not allowed")
                 ELSE IF Len(r.path) < least THEN Response(op, r, 400, "id required")
                 ELSE Response(op, r, 200,
                               IF op = "HandleGetUserSubscriptions"
                               THEN GetUserSubscriptions(r.path[Len(r.path)])
                               ELSE GetChannelConfig(r.path[Len(r.path)]).rec)
    /\ CanRLock(mu)
    /\ UNCHANGED <<storeVars, discordSession, dispatchVars, webhooks>>

\* The same requests from a client without the key, and from one with a wrong
\* key that also uses a method the endpoint does not take.
Unauthorized(requests) ==
    {[r EXCEPT !.apiKey = <<>>] : r \in requests} \cup
    {[r EXCEPT !.apiKey = <<"x">>, !.method = IF r.method = "GET" THEN "POST" ELSE "GET"] :
        r \in requests}

\* From a client with the key: every body with the method of the endpoint;
\* and all of them from clients without it.
ApiRequests(path, method, bodies) ==
    LET good == {Request(method, CORAL_API_KEY, path, body) : body \in bodies}
    IN good \cup Unauthorized(good)

SubscriptionBodies ==
    {BadJSON, [DiscordUserID |-> "u1", MarketID |-> "m1", CreatorID |-> "alice"]}

ChannelBodies ==
    {BadJSON, [ChannelID |-> "ch1", Enabled |-> TRUE, AllowedCategories |-> <<"sports">>,
               Frequency |-> "high"]}

SubscriptionEndpoint ==
    \E r \in ApiRequests(<<"discord", "subscribe">>, "POST", SubscriptionBodies) :
        \/ HandleSubscribeMarket(r) /\ lastOp' = StoreResponse("HandleSubscribeMarket", r, "POST")
        \/ HandleUnsubscribeMarket(r) /\ lastOp' = StoreResponse("HandleUnsubscribeMarket", r, "POST")
        \/ HandleSubscribeCreator(r) /\ lastOp' = StoreResponse("HandleSubscribeCreator", r, "POST")
        \/ HandleUnsubscribeCreator(r) /\ lastOp' = StoreResponse("HandleUnsubscribeCreator", r, "POST")

ChannelEndpoint ==
    \E r \in ApiRequests(<<"discord", "channel", "feed">>, "POST", ChannelBodies) :
        \/ HandleChannelFeedNewMarkets(r)
              /\ lastOp' = StoreResponse("HandleChannelFeedNewMarkets", r, "POST")
        \/ HandleChannelFeedCategories(r)
              /\ lastOp' = StoreResponse("HandleChannelFeedCategories", r, "POST")
        \/ HandleChannelFeedFrequency(r)
              /\ lastOp' = StoreResponse("HandleChannelFeedFrequency", r, "POST")

ReadEndpoint ==
    \/ \E r \in ApiRequests(<<"discord", "subscriptions", "u1">>, "GET", {NoBody}) :
          HandleGetByPath("HandleGetUserSubscriptions", r, 3)
    \/ \E r \in ApiRequests(<<"discord", "channel", "settings", "ch1">>, "GET", {NoBody}) :
          HandleGetByPath("HandleGetChannelSettings", r, 4)
    \/ \E r \in ApiRequests(<<"discord", "webhooks">>, "GET", {NoBody}) : HandleListWebhooks(r)

RegistrationEndpoint ==
    \/ \E r \in ApiRequests(<<"discord", "webhooks", "register">>, "POST",
                            {BadJSON, [ChannelID |-> "ch1", WebhookURL |-> "https://hook",
                                       Events |-> <<"new_market">>, Frequency |-> "",
                                       AllowedCategories |-> <<>>]}),
          gen \in {g \in GenerateIDOutcomes : g.id \in {"0a", ""}} :
          HandleRegisterWebhook(r, gen)
    \/ \E r \in ApiRequests(<<"discord", "webhooks", "unregister">>, "DELETE",
                            {BadJSON, [ID |-> "wh_0a"]}) :
          HandleUnregisterWebhook(r)
    \/ \E r \in ApiRequests(<<"discord", "webhooks", "wh_0a">>, "DELETE", {NoBody}) :
          HandleUnregisterWebhookByPath(r)

NotificationEndpoint ==
    \E r \in ApiRequests(<<"discord", "notifications", "dm">>, "POST",
                         {BadJSON, [DiscordUserID |-> "u1", Type |-> "market_update"]}),
       outcome \in DMOutcomes :
        HandleNotificationsDM(r, outcome)

IngressEndpoint ==
    \/ \E handler \in DOMAIN WebhookEndpoints :
          \E r \in ApiRequests(<<"webhooks">>, "POST",
                               {BadJSON} \cup [EventType : {WebhookEndpoints[handler]},
                                               Market : {m \in EventMarkets : m.ID = "m1"}]) :
              HandleWebhook_Begin(handler, r)
    \/ \E handler \in DOMAIN EventEndpoints,
          r \in ApiRequests(<<"discord", "events">>, "POST", EventBodies) :
          HandleEvent_Begin(handler, r)
    \/ \E r \in ApiRequests(<<"discord", "events", "new-market">>, "POST",
                            {BadJSON} \cup [EventType : {"new_market"},
                                            Market : {m \in EventMarkets : m.ID = "m1"}]) :
          HandleEventNewMarket_Begin(r)

\* One request at a time, each from its arrival to its response.
ApiNext ==
    \/ /\ dpc = "idle"
       /\ SubscriptionEndpoint
       /\ UNCHANGED <<dCommands, clock, lastUpdateSend, nProbe, uProbe, raceVars, hookVars>>
    \/ /\ dpc = "idle"
       /\ ChannelEndpoint
       /\ UNCHANGED <<dCommands, clock, lastUpdateSend, nProbe, uProbe, raceVars, hookVars>>
    \/ /\ dpc = "idle"
       /\ ReadEndpoint
       /\ UNCHANGED <<dCommands, clock, lastUpdateSend, nProbe, uProbe, raceVars, aProbe, mProbe>>
    \/ /\ dpc = "idle"
       /\ RegistrationEndpoint
       /\ UNCHANGED <<dCommands, clock, lastUpdateSend, nProbe, uProbe, raceVars, aProbe, mProbe>>
    \/ /\ dpc = "idle"
       /\ NotificationEndpoint
       /\ UNCHANGED <<dCommands, clock, lastUpdateSend, nProbe, uProbe, raceVars, aProbe, mProbe>>
    \/ /\ IngressEndpoint
       /\ UNCHANGED <<dCommands, clock, nProbe, uProbe, raceVars, hookVars>>
    \/ /\ \/ \E p \in dChanTodo : sendToSubscribedChannels_Iterate(p, TRUE)
          \/ sendToSubscribedUsers_Begin
          \/ \E p \in dSubTodo : sendToSubscribedUsers_Iterate(p, "ok")
          \/ sendToSubscribedUsers_Return
       /\ UNCHANGED <<dCommands, clock, lastOp, nProbe, uProbe, raceVars, hookVars>>
    \/ /\ HandleIngress_Respond \/ HandleNewMarket_Respond
       /\ UNCHANGED <<dCommands, clock, lastUpdateSend, nProbe, uProbe, raceVars, hookVars>>
    \/ /\ dpc = "idle"
       /\ SetDiscordSession
       /\ lastOp' = [op |-> "SetDiscordSession"]
       /\ UNCHANGED <<dCommands, clock, lastUpdateSend, nProbe, uProbe, raceVars, hookVars>>

SpecApi == Init /\ [][ApiNext]_vars

\* The handlers StartWebServer routes to, HandleHealth left out.
AuthenticatedHandlers ==
    DOMAIN WebhookEndpoints \cup DOMAIN EventEndpoints \cup
    {"HandleEventNewMarket", "HandleRegisterWebhook", "HandleUnregisterWebhook",
     "HandleUnregisterWebhookByPath", "HandleListWebhooks", "HandleNotificationsDM",
     "HandleSubscribeMarket", "HandleUnsubscribeMarket", "HandleSubscribeCreator",
     "HandleUnsubscribeCreator", "HandleGetUserSubscriptions", "HandleChannelFeedNewMarkets",
     "HandleChannelFeedCategories", "HandleChannelFeedFrequency", "HandleGetChannelSettings"}

\* C32: every handler but the health endpoint answers 401 to a request that
\* does not carry the configured key (no token is configured), whatever its
\* method and whether its body parses; it then changes no subscription, no
\* channel config and no webhook registration, starts no dispatch and makes no
\* call on Discord.
C32_UnauthorizedGets401 ==
    (lastOp.op \in AuthenticatedHandlers /\ lastOp.request.apiKey # <<"k">>) =>
        /\ lastOp.status = 401
        /\ StoreAsBefore(lastOp)
        /\ dpc = "idle"
        /\ dLog = NoLog
        /\ lastOp.chanSends = 0 /\ lastOp.dmCreates = 0 /\ lastOp.dmSends = 0

\* A GET with a wrong key and an unparsable body at a POST endpoint that
\* would change the store, the session set and a record of u1 stored: 401.
C32_Witness ==
    /\ lastOp.op = "HandleUnsubscribeMarket"
    /\ lastOp.request.apiKey = <<"x">>
    /\ lastOp.request.method = "GET"
    /\ lastOp.request.body = BadJSON
    /\ lastOp.status = 401
    /\ discordSession
    /\ RangeFinds(GetUserSubscriptions("u1").SubscribedMarkets, "m1")
    /\ channels["ch1"] # NoPtr

====
